---- MODULE Spec2Model ----
(***************************************************************************)
(* A model of the go-nitro ledger cranker (protocols/ledger/ledger.go),    *)
(* of the channel it drives, of the voucher path of the RPC server, of the *)
(* client's queries, API methods and event handler (client/), of the mock  *)
(* store, of the defund objectives, of the reverse payment proxy, of the   *)
(* RPC server's request handlers and Close, of network.Request and of the  *)
(* websocket client transport.  Each part has a specification of its own   *)
(* over the shared variables.                                              *)
(*                                                                         *)
(* Values.  An address, a destination and the secret key controlling an    *)
(* address are all written as the same short string ("A", "B"); "X" is a   *)
(* key whose address takes part in no channel.  A hash is modelled by the   *)
(* value hashed (an injective hash), so a channel id is the tuple of the    *)
(* fields it is computed from and a signature is the address it recovers    *)
(* to for the state that carries it.                                        *)
(***************************************************************************)
EXTENDS Integers, Sequences, FiniteSets, TLC

VARIABLES
    ledgers,    \* LedgerCranker.ledgers: ledger id -> TwoPartyLedger
    panicked,   \* TRUE once a panic has aborted the process
    lastOp,     \* the last operation called, its arguments and what it returned
    largest,    \* VoucherManager: channel id -> largest voucher amount recorded
    seenMax,    \* history: channel id -> largest validly signed amount presented
    script,     \* history: how far the calls so far follow ExampleAmounts
    channels,   \* the store's channels: channel id -> channel.Channel
    consensusChannels,  \* the store's consensus channels: id -> ConsensusChannel
    objectives, \* the store's objectives: objective id -> stored objective
    setObjective,   \* MockStore.SetObjective in progress: the channels left to set
    getObjective,   \* MockStore.GetObjectiveById in progress: what it has read
    snapshots,      \* history: what GetObjectiveById answers between two writes
    engine,     \* the engine's queues: ObjectiveRequestsFromAPI,
                \* PaymentRequestsFromAPI, ToApi
    client,     \* the client's chans: completedObjectives, failedObjectives,
                \* receivedVouchers
    handler,    \* handleEngineEvents: the update in hand and what is left of it
    history,    \* history: what the engine emitted and the consumers received
    destination,    \* the requests the reverse proxy forwarded to the destination
    net,        \* network.Request: the call, its goroutine and returnChan
    server,     \* RpcServer: its context, wait group, goroutine and Close
    ws          \* clientWebSocketTransport: readMessages, Close and the chan

ledgerVars == <<ledgers, panicked>>
voucherVars == <<largest, seenMax, script>>
storeVars == <<channels, consensusChannels, objectives>>
mockVars == <<setObjective, getObjective, snapshots>>
clientVars == <<engine, client, handler, history>>
proxyVars == <<destination>>
rpcVars == <<net, server, ws>>

vars == <<ledgerVars, lastOp, voucherVars, storeVars, mockVars, clientVars, proxyVars,
          rpcVars>>

\* what the steps of each part leave unchanged
offLedger == <<voucherVars, storeVars, mockVars, clientVars, proxyVars, rpcVars>>
offVoucher == <<ledgerVars, storeVars, mockVars, clientVars, proxyVars, rpcVars>>
offQuery == <<ledgerVars, mockVars, clientVars, proxyVars, rpcVars>>
offStore == <<ledgerVars, voucherVars, consensusChannels, clientVars, proxyVars, rpcVars>>
offClient == <<ledgerVars, voucherVars, storeVars, mockVars, proxyVars, rpcVars>>
offProxy == <<ledgerVars, seenMax, script, storeVars, mockVars, clientVars, rpcVars>>
offCodec == <<ledgerVars, voucherVars, storeVars, mockVars, clientVars, proxyVars, rpcVars>>

----------------------------------------------------------------------------
(* Bounds *)

MaxTurnNum == 3     \* no state with a larger turn number is built
WordModulus == 64   \* stands for 2^64, the range of uint64

----------------------------------------------------------------------------
(* Primitive values *)

Participant == {"A", "B"}
Keys == {"A", "B", "X"}
VirtualChannels == {"V1", "V2"}
NoAddress == "0x0"                  \* types.Address{}
None == "none"

ChainId == 9001
ChallengeDuration == 45
NormalAllocationType == "Normal"
GuaranteeAllocationType == "Guarantee"

\* the destinations that have an image; a destination is 32 bytes in the
\* program and 2 bytes here, the bytes being base-4 digits
Destinations == <<NoAddress, "A", "B", "I", "X", "V1", "V2", "L1">>

\* the 2-byte image of a destination
Bytes32(d) ==
    IF \E i \in DOMAIN Destinations : Destinations[i] = d
    THEN LET i == CHOOSE j \in DOMAIN Destinations : Destinations[j] = d
         IN  <<(i - 1) \div 4, (i - 1) % 4>>
    ELSE <<0, 0>>

\* outcome.GuaranteeMetadata{Left, Right}.Encode(): the two words, concatenated
Encode(left, right) == Bytes32(left) \o Bytes32(right)

\* the destination of a 2-byte image
FromBytes32(w) ==
    IF w[1] \in 0..1 /\ w[2] \in 0..3 THEN Destinations[4 * w[1] + w[2] + 1]
    ELSE NoAddress

\* outcome.DecodeIntoGuaranteeMetadata: the two words of the metadata
Decode(metadata) ==
    IF Len(metadata) # 4 THEN [err |-> TRUE, Left |-> NoAddress, Right |-> NoAddress]
    ELSE [err |-> FALSE,
          Left |-> FromBytes32(SubSeq(metadata, 1, 2)),
          Right |-> FromBytes32(SubSeq(metadata, 3, 4))]

Allocation(dest, amount) ==
    [Destination |-> dest, Amount |-> amount,
     AllocationType |-> NormalAllocationType, Metadata |-> <<>>]

RECURSIVE SumAmounts(_)
SumAmounts(allocs) ==
    IF allocs = <<>> THEN 0
    ELSE Head(allocs).Amount + SumAmounts(Tail(allocs))

Max(S) == CHOOSE x \in S : \A y \in S : y <= x

----------------------------------------------------------------------------
(* state.State, state.SignedState *)

\* Clone deep-copies a state: the copy is an equal value
Clone(s) == s

\* the index of an address among the participants, or -1
IndexOf(participants, addr) ==
    IF \E i \in 1..Len(participants) : participants[i] = addr
    THEN (CHOOSE i \in 1..Len(participants) : participants[i] = addr) - 1
    ELSE -1

NewSignedState(s) == [state |-> s, sigs |-> <<>>]

\* sigs maps a participant index to the address the signature recovers to
SigIndices(ss) == DOMAIN ss.sigs
ValidSignatures(ss) ==
    \A i \in SigIndices(ss) :
        /\ i \in 0..(Len(ss.state.Participants) - 1)
        /\ ss.sigs[i] = ss.state.Participants[i + 1]

HasAllSignatures(ss) ==
    SigIndices(ss) = 0..(Len(ss.state.Participants) - 1)

WithSig(sigs, i, addr) ==
    [j \in DOMAIN sigs \cup {i} |-> IF j = i THEN addr ELSE sigs[j]]

\* SignedState.SignAndAdd: sign with the key and file the signature under the
\* signer's index; an error when the key belongs to no participant
SignAndAdd(ss, key) ==
    LET i == IndexOf(ss.state.Participants, key) IN
    IF i < 0 THEN [err |-> TRUE, ss |-> ss]
    ELSE [err |-> FALSE, ss |-> [ss EXCEPT !.sigs = WithSig(ss.sigs, i, key)]]

MergeSigs(a, b) ==
    [j \in DOMAIN a \cup DOMAIN b |-> IF j \in DOMAIN a THEN a[j] ELSE b[j]]

----------------------------------------------------------------------------
(* channel.Channel *)

ChannelId(s) == <<s.Participants, s.ChannelNonce>>

Turns(c) == DOMAIN c.SignedStateForTurnNum

SupportedTurns(c) ==
    {t \in Turns(c) : HasAllSignatures(c.SignedStateForTurnNum[t])}

HasSupportedState(c) == SupportedTurns(c) # {}

\* Channel.LatestSupportedState: the highest-turn fully signed state, or an error
LatestSupportedState(c) ==
    IF HasSupportedState(c)
    THEN [err |-> FALSE,
          state |-> c.SignedStateForTurnNum[Max(SupportedTurns(c))].state]
    ELSE [err |-> TRUE, state |-> None]

Store(c, ss) ==
    LET t == ss.state.TurnNum IN
    [c EXCEPT !.SignedStateForTurnNum =
        [u \in Turns(c) \cup {t} |->
            IF u = t THEN ss ELSE c.SignedStateForTurnNum[u]]]

\* AddSignedState letting an equally signed state replace the retained one
AddSignedStateReplaceOnTie(c, ss) ==
    LET t == ss.state.TurnNum IN
    IF ~ValidSignatures(ss) THEN [ok |-> FALSE, c |-> c]
    ELSE IF \E u \in SupportedTurns(c) : u > t THEN [ok |-> FALSE, c |-> c]
    ELSE IF t \notin Turns(c) THEN [ok |-> TRUE, c |-> Store(c, ss)]
    ELSE LET have == c.SignedStateForTurnNum[t] IN
         IF have.state = ss.state
         THEN [ok |-> TRUE,
               c |-> Store(c, [have EXCEPT !.sigs = MergeSigs(have.sigs, ss.sigs)])]
         ELSE IF Cardinality(SigIndices(ss)) >= Cardinality(SigIndices(have))
         THEN [ok |-> TRUE, c |-> Store(c, ss)]
         ELSE [ok |-> FALSE, c |-> c]

\* Channel.AddSignedState: [ok, c].  Rejected without mutation when a
\* signature is invalid or a state of strictly higher turn is fully supported;
\* otherwise the channel keeps, per turn, the most-signed signed state seen.
AddSignedState(c, ss) ==
    LET t == ss.state.TurnNum IN
    IF ~ValidSignatures(ss) THEN [ok |-> FALSE, c |-> c]
    ELSE IF \E u \in SupportedTurns(c) : u > t THEN [ok |-> FALSE, c |-> c]
    ELSE IF t \notin Turns(c) THEN [ok |-> TRUE, c |-> Store(c, ss)]
    ELSE LET have == c.SignedStateForTurnNum[t] IN
         IF have.state = ss.state
         THEN [ok |-> TRUE,
               c |-> Store(c, [have EXCEPT !.sigs = MergeSigs(have.sigs, ss.sigs)])]
         ELSE IF Cardinality(SigIndices(ss)) > Cardinality(SigIndices(have))
         THEN [ok |-> TRUE, c |-> Store(c, ss)]
         ELSE [ok |-> FALSE, c |-> c]

\* channel.NewTwoPartyLedger: the channel of the initial state, holding its
\* pre-fund state (turn 0) and post-fund state (turn 1), both unsigned
NewTwoPartyLedger(initialState, myIndex) ==
    [Id |-> ChannelId(initialState),
     MyIndex |-> myIndex,
     SignedStateForTurnNum |->
        [t \in {0, 1} |-> NewSignedState([initialState EXCEPT !.TurnNum = t])]]

PreFundState(c) == c.SignedStateForTurnNum[0].state

\* Channel.SignAndAddPrefund / SignAndAddPostfund, the error dropped
SignAndAddState(c, s, key) ==
    LET signed == SignAndAdd(NewSignedState(s), key) IN
    IF signed.err THEN c ELSE AddSignedState(c, signed.ss).c

----------------------------------------------------------------------------
(* protocols.LedgerRequest, protocols.SideEffects *)

LedgerPairs == {<<"A", "B">>, <<"B", "A">>}
LedgerIds == {<<p, 0>> : p \in LedgerPairs}
LedgerAmounts == {100}
RequestAmounts == {10}

\* Kind is the request's purpose as the protocol describes it; HandleRequest
\* reads LedgerId, Destination, Amount, Left and Right only
\* V1 is funded with A to the left of B, V2 with B to the left of A
LeftRightOf(d) == IF d = "V1" THEN <<"A", "B">> ELSE <<"B", "A">>

LedgerRequests ==
    {[LedgerId |-> id, Destination |-> d, Amount |-> g,
      Left |-> LeftRightOf(d)[1], Right |-> LeftRightOf(d)[2], Kind |-> k] :
        id \in LedgerIds, d \in VirtualChannels, g \in RequestAmounts,
        k \in {"Add", "Remove"}}

ObjectiveIds == {"VirtualFund-V1"}

\* protocols.CreateSignedStateMessages: one message per other participant
CreateSignedStateMessages(oId, ss, myIndex) ==
    {[To |-> ss.state.Participants[i + 1], ObjectiveId |-> oId, SignedState |-> ss] :
        i \in (0..(Len(ss.state.Participants) - 1)) \ {myIndex}}

----------------------------------------------------------------------------
(* LedgerCranker *)

\* built: ss holds the signed state the call built; repeat: the call
\* repeats the call before it (same request, same key), which succeeded;
\* stale: the state added has a turn number no larger than a supported one
\* voucher, prior, value, err: a ReceiveVoucher call's voucher, the amount
\* recorded before it, and the value and error it answered with
\* status, paid, remaining: the channel info a query answered with; via: where
\* the query found the channel ("objective", "channel", "consensus")
\* obj: the objective or channel a read of the store returned
NoOp ==
    [op |-> None, id |-> None, request |-> None, key |-> None,
     built |-> FALSE, ss |-> None, added |-> FALSE, messages |-> {},
     result |-> None, repeat |-> FALSE, stale |-> FALSE,
     voucher |-> None, prior |-> 0, value |-> 0, err |-> FALSE,
     status |-> None, paid |-> 0, remaining |-> 0, via |-> None,
     obj |-> None, keys |-> <<>>, responses |-> <<>>]

\* BaseState taking the highest-turn retained state, supported or not
BaseStateLatest(ledger) ==
    IF HasSupportedState(ledger)
    THEN [err |-> FALSE,
          state |-> ledger.SignedStateForTurnNum[Max(Turns(ledger))].state]
    ELSE [err |-> TRUE, state |-> None]

\* ledger.go:69, the state the next one is derived from
BaseState(ledger) == LatestSupportedState(ledger)

\* AddToChannel writing the channel's map directly
AddToChannelOverwrite(ledger, ss) == [ok |-> TRUE, c |-> Store(ledger, ss)]

\* ledger.go:102, filing the signed state in the channel
AddToChannel(ledger, ss) == AddSignedState(ledger, ss)

\* the metadata naming the right destination first
GuaranteeMetadataSwapped(request) == Encode(request.Right, request.Left)

\* ledger.go:64, the metadata of the guarantee HandleRequest builds
GuaranteeMetadata(request) == Encode(request.Left, request.Right)

GuaranteeFor(request) ==
    [Destination |-> request.Destination,
     Amount |-> request.Amount,
     AllocationType |-> GuaranteeAllocationType,
     Metadata |-> GuaranteeMetadata(request)]

\* NextState advancing the turn number by two
NextStateSkipsTurn(supported, request) ==
    [supported EXCEPT
        !.Outcome = << Allocation(request.Left, 0), Allocation(request.Right, 0),
                       GuaranteeFor(request) >>,
        !.TurnNum = supported.TurnNum + 2]

\* NextState listing the right allocation before the left one
NextStateSwapped(supported, request) ==
    [supported EXCEPT
        !.Outcome = << Allocation(request.Right, 0), Allocation(request.Left, 0),
                       GuaranteeFor(request) >>,
        !.TurnNum = supported.TurnNum + 1]

\* the state HandleRequest builds from the supported state and the request
NextState(supported, request) ==
    LET guarantee == GuaranteeMetadata(request)
        nextState == Clone(supported)
    IN  [nextState EXCEPT
            !.Outcome =
                << Allocation(request.Left, 0),
                   Allocation(request.Right, 0),
                   [Destination |-> request.Destination,
                    Amount |-> request.Amount,
                    AllocationType |-> GuaranteeAllocationType,
                    Metadata |-> guarantee] >>,
            !.TurnNum = nextState.TurnNum + 1]

\* network.Request before any call: no goroutine, no channel
NoCall ==
    [request |-> "none", pc |-> "none", responseData |-> "none",
     returnChan |-> <<>>, sent |-> <<>>, received |-> <<>>, err |-> "none"]

\* the node's notification chans the server selects on
NodeChans == {"CompletedObjectives", "LedgerUpdates", "PaymentUpdates"}

\* the server NewRpcServer returns: rs.wg.Add(1), the goroutine of
\* sendNotifications started on a context not yet cancelled, Close not called
NewRpcServer ==
    [cancelled |-> FALSE, wg |-> 1, sendNotifications |-> "select",
     Close |-> "none", closed |-> {},
     queued |-> [chan \in NodeChans |-> 0], notified |-> 0]

\* the transport NewWebSocketTransportAsClient returns: the websocket open,
\* the notification chan open, the goroutine of readMessages at its Read
NewWebSocketTransportAsClient ==
    [readMessages |-> "Read", data |-> "none", Close |-> "none",
     clientWebsocket |-> "open", closedChan |-> FALSE, delivered |-> <<>>]

Init ==
    /\ ledgers = <<>>
    /\ panicked = FALSE
    /\ lastOp = NoOp
    /\ largest = [c \in VirtualChannels |-> 0]
    /\ seenMax = [c \in VirtualChannels |-> 0]
    /\ script = 0
    /\ channels = <<>>
    /\ consensusChannels = <<>>
    /\ objectives = <<>>
    /\ setObjective = <<>>
    /\ getObjective = <<>>
    /\ snapshots = {}
    /\ engine = [ObjectiveRequestsFromAPI |-> <<>>,
                 PaymentRequestsFromAPI |-> <<>>, ToApi |-> <<>>]
    /\ client = [completedObjectives |-> <<>>, failedObjectives |-> <<>>,
                 receivedVouchers |-> <<>>, call |-> <<>>]
    /\ handler = <<>>
    /\ history = [emitted |-> [completedObjectives |-> <<>>,
                               failedObjectives |-> <<>>,
                               receivedVouchers |-> <<>>],
                  received |-> [completedObjectives |-> <<>>,
                                failedObjectives |-> <<>>,
                                receivedVouchers |-> <<>>]]
    /\ destination = <<>>
    /\ net = NoCall
    /\ server = NewRpcServer
    /\ ws = NewWebSocketTransportAsClient

Panic(op) ==
    /\ panicked' = TRUE
    /\ lastOp' = [op EXCEPT !.result = "panic"]
    /\ UNCHANGED ledgers

CreateLedger(left, right, myIndex) ==
    LET initialState ==
            [ChainId |-> ChainId,
             Participants |-> <<left.Destination, right.Destination>>,
             ChannelNonce |-> 0,
             AppDefinition |-> NoAddress,
             ChallengeDuration |-> ChallengeDuration,
             AppData |-> <<>>,
             Outcome |-> <<left, right>>,
             TurnNum |-> 0,
             IsFinal |-> FALSE]
        ledger == NewTwoPartyLedger(initialState, myIndex)
    IN  /\ ~panicked
        /\ ledgers' = [id \in DOMAIN ledgers \cup {ledger.Id} |->
                          IF id = ledger.Id THEN ledger ELSE ledgers[id]]
        /\ lastOp' = [NoOp EXCEPT !.op = "CreateLedger", !.id = ledger.Id,
                                  !.result = "ok"]
        /\ UNCHANGED panicked

HandleRequest(request, oId, secretKey) ==
    LET op == [NoOp EXCEPT !.op = "HandleRequest", !.id = request.LedgerId,
                           !.request = request, !.key = secretKey,
                           !.repeat = /\ lastOp.op = "HandleRequest"
                                      /\ lastOp.result = "ok"
                                      /\ lastOp.request = request
                                      /\ lastOp.key = secretKey]
    IN
    /\ ~panicked
    /\ IF request.LedgerId \notin DOMAIN ledgers
       THEN Panic(op)                      \* nil pointer dereference
       ELSE
       LET ledger == ledgers[request.LedgerId]
           sup == BaseState(ledger)
       IN  IF sup.err THEN Panic(op)
           ELSE
           LET nextState == NextState(sup.state, request)
               signed == SignAndAdd(NewSignedState(nextState), secretKey)
               op2 == [op EXCEPT !.built = TRUE, !.ss = signed.ss]
           IN  IF signed.err THEN Panic(op2)
               ELSE
               LET add == AddToChannel(ledger, signed.ss) IN
               IF ~add.ok THEN Panic(op2)
               ELSE
               /\ ledgers' = [ledgers EXCEPT ![request.LedgerId] = add.c]
               /\ lastOp' = [op2 EXCEPT
                     !.added = TRUE,
                     !.messages = CreateSignedStateMessages(oId, signed.ss, ledger.MyIndex),
                     !.result = "ok"]
               /\ UNCHANGED panicked

GetLedger(ledgerId) ==
    LET op == [NoOp EXCEPT !.op = "GetLedger", !.id = ledgerId]
    IN  /\ ~panicked
        /\ IF ledgerId \notin DOMAIN ledgers
           THEN Panic(op)
           ELSE /\ lastOp' = [op EXCEPT !.result = "ok"]
                /\ UNCHANGED <<ledgers, panicked>>

RECURSIVE SignStateWithAll(_, _, _)
SignStateWithAll(c, turn, secretKeys) ==
    IF secretKeys = <<>> THEN c
    ELSE SignStateWithAll(
            SignAndAddState(c, c.SignedStateForTurnNum[turn].state, Head(secretKeys)),
            turn, Tail(secretKeys))

SignPreAndPostFundingStates(id, secretKeys) ==
    LET pre == SignStateWithAll(ledgers[id], 0, secretKeys)
        post == SignStateWithAll(pre, 1, secretKeys)
    IN  /\ ~panicked
        /\ ledgers' = [ledgers EXCEPT ![id] = post]
        /\ lastOp' = [NoOp EXCEPT !.op = "SignPreAndPostFundingStates", !.id = id,
                                  !.result = "ok"]
        /\ UNCHANGED panicked

RECURSIVE SignWithAll(_, _)
SignWithAll(ss, secretKeys) ==
    IF secretKeys = <<>> THEN ss
    ELSE SignWithAll(SignAndAdd(ss, Head(secretKeys)).ss, Tail(secretKeys))

\* the loop of SignLatest with its comparison turned round: no turn number is
\* smaller than the initial 0
LargestTurnFlipped(ledger) == 0

\* ledger.go:133-138, the largest turn number of the states retained
LargestTurn(ledger) == Max(Turns(ledger) \cup {0})

SignLatest(id, secretKeys) ==
    LET ledger == ledgers[id]
        turnNum == LargestTurn(ledger)
        toSign == SignWithAll(ledger.SignedStateForTurnNum[turnNum], secretKeys)
        add == AddSignedState(ledger, toSign)
    IN  /\ ~panicked
        /\ ledgers' = [ledgers EXCEPT ![id] = add.c]
        /\ lastOp' = [NoOp EXCEPT !.op = "SignLatest", !.id = id,
                                  !.keys = secretKeys,
                                  !.added = add.ok, !.result = "ok"]
        /\ UNCHANGED panicked

\* a signed state arriving from the counterparty is added to the channel
ReceiveSignedState(id, ss) ==
    LET add == AddSignedState(ledgers[id], ss) IN
    /\ ~panicked
    /\ ledgers' = [ledgers EXCEPT ![id] = add.c]
    /\ lastOp' = [NoOp EXCEPT !.op = "AddSignedState", !.id = id,
                              !.added = add.ok, !.result = "ok",
                              !.stale = \E t \in SupportedTurns(ledgers[id]) :
                                            ss.state.TurnNum <= t]
    /\ UNCHANGED panicked

KeyLists == {<<"A">>, <<"B">>, <<"A", "B">>, <<"X">>}

\* the ledger the cranker is driven with; the other id is never created
ThePair == <<"A", "B">>

\* what the counterparty may send: a retained state at its own turn, or its
\* own proposal (a guarantee for V2) at any turn up to the next one
IncomingStates(c) ==
    LET retained == {c.SignedStateForTurnNum[t].state : t \in Turns(c)}
        theirs == [LedgerId |-> c.Id, Destination |-> "V2", Amount |-> 10,
                   Left |-> "B", Right |-> "A", Kind |-> "Add"]
        top == Max(Turns(c))
    IN  retained \cup
        {[NextState(s, theirs) EXCEPT !.TurnNum = t] :
            s \in retained, t \in 0..(IF top < MaxTurnNum THEN top + 1 ELSE top)}

\* the signatures on an incoming state: the counterparty's alone, both
\* participants', or one that does not verify
IncomingSigs(c) ==
    LET other == 1 - c.MyIndex
        addr(i) == c.SignedStateForTurnNum[0].state.Participants[i + 1]
    IN  { [i \in {other} |-> addr(other)],
          [i \in {0, 1} |-> addr(i)],
          [i \in {other} |-> "X"] }

\* the calls of HandleRequest: every request for the created ledger under a
\* participant's key, and one request each under a stranger's key and for the
\* ledger that was never created
HandleRequestCalls ==
    {[request |-> r, key |-> k] : r \in LedgerRequests, k \in Keys} \
    {c \in [request : LedgerRequests, key : Keys] :
        /\ \/ c.key \notin Participant
           \/ c.request.LedgerId # <<ThePair, 0>>
        /\ \/ c.request.Destination # "V1"
           \/ c.request.Kind # "Add"
           \/ c.key = "B"}

Next ==
    \/ \E a \in LedgerAmounts, b \in LedgerAmounts, i \in {0, 1} :
          CreateLedger(Allocation(ThePair[1], a), Allocation(ThePair[2], b), i)
          /\ UNCHANGED offLedger
    \/ \E c \in HandleRequestCalls, o \in ObjectiveIds :
          /\ c.request.LedgerId \in DOMAIN ledgers =>
                \A t \in Turns(ledgers[c.request.LedgerId]) : t < MaxTurnNum
          /\ HandleRequest(c.request, o, c.key) /\ UNCHANGED offLedger
    \/ \E id \in LedgerIds : GetLedger(id) /\ UNCHANGED offLedger
    \/ \E id \in DOMAIN ledgers, ks \in KeyLists :
          SignPreAndPostFundingStates(id, ks) /\ UNCHANGED offLedger
    \/ \E id \in DOMAIN ledgers, ks \in KeyLists :
          SignLatest(id, ks) /\ UNCHANGED offLedger
    \/ \E id \in DOMAIN ledgers :
          \E s \in IncomingStates(ledgers[id]), g \in IncomingSigs(ledgers[id]) :
             ReceiveSignedState(id, [state |-> s, sigs |-> g]) /\ UNCHANGED offLedger

Spec == Init /\ [][Next]_vars

----------------------------------------------------------------------------
(* Properties of the ledger cranker *)

HandleRequestAdded == lastOp'.op = "HandleRequest" /\ lastOp'.added
SupportedBefore == LatestSupportedState(ledgers[lastOp'.id]).state
IsGuarantee(a) == a.AllocationType = GuaranteeAllocationType
HasGuaranteeFor(allocs, dest) ==
    \E i \in 1..Len(allocs) : IsGuarantee(allocs[i]) /\ allocs[i].Destination = dest
PlainPair(allocs) ==
    Len(allocs) = 2 /\ ~IsGuarantee(allocs[1]) /\ ~IsGuarantee(allocs[2])

\* C1: when HandleRequest adds a guarantee of g to a ledger whose supported
\* outcome is the plain pair (left: a, right: b), the new outcome sums to
\* a + b, with left: a - g and right: b as plain allocations.
C1_GuaranteeKeepsTotal ==
    [][ (HandleRequestAdded /\ PlainPair(SupportedBefore.Outcome)) =>
          LET old == SupportedBefore.Outcome
              new == lastOp'.ss.state.Outcome
              g == lastOp'.request.Amount
          IN  /\ SumAmounts(new) = SumAmounts(old)
              /\ \E i, j \in 1..Len(new) :
                    /\ ~IsGuarantee(new[i]) /\ new[i].Amount = old[1].Amount - g
                    /\ ~IsGuarantee(new[j]) /\ new[j].Amount = old[2].Amount
                    /\ i # j ]_vars

\* the first proposal: the state retained for the turn after the supported
\* one, signed by one participant and not yet countersigned
OpenProposal(c) ==
    LET sup == LatestSupportedState(c) IN
    /\ ~sup.err
    /\ (sup.state.TurnNum + 1) \in Turns(c)
    /\ LET first == c.SignedStateForTurnNum[sup.state.TurnNum + 1] IN
          SigIndices(first) # {} /\ ~HasAllSignatures(first)

ProposalOf(c) ==
    c.SignedStateForTurnNum[LatestSupportedState(c).state.TurnNum + 1]

\* C2: while a turn-(N+1) proposal awaits its countersignature, a
\* HandleRequest for the same ledger that builds a different state leaves the
\* state and the signatures retained for turn N+1 exactly as they were.
C2_SecondRequestNeverMerged ==
    [][ \A id \in DOMAIN ledgers :
          ( /\ lastOp'.op = "HandleRequest" /\ lastOp'.id = id /\ lastOp'.built
            /\ OpenProposal(ledgers[id])
            /\ lastOp'.ss.state # ProposalOf(ledgers[id]).state )
          => /\ id \in DOMAIN ledgers'
             /\ OpenProposal(ledgers'[id])
             /\ ProposalOf(ledgers'[id]) = ProposalOf(ledgers[id]) ]_vars

C2_Witness ==
    /\ lastOp.op = "HandleRequest" /\ lastOp.built /\ lastOp.ss.sigs # <<>>
    /\ lastOp.id \in DOMAIN ledgers
    /\ OpenProposal(ledgers[lastOp.id])
    /\ lastOp.ss.state # ProposalOf(ledgers[lastOp.id]).state
    /\ lastOp.ss.state.TurnNum = ProposalOf(ledgers[lastOp.id]).state.TurnNum
    /\ LET first == ProposalOf(ledgers[lastOp.id]) IN
          /\ \E i \in SigIndices(first) : first.sigs[i] = lastOp.key
          /\ \E d \in VirtualChannels \ {lastOp.request.Destination} :
                HasGuaranteeFor(first.state.Outcome, d)
    /\ lastOp.result = "panic"

\* C3: a state HandleRequest signs and adds has the turn number of the
\* supported state plus one and equals it in every field but outcome and turn.
C3_NextTurnSameFixedPart ==
    [][ HandleRequestAdded =>
          LET new == lastOp'.ss.state
              c == ledgers'[lastOp'.id]
          IN  /\ new.TurnNum = SupportedBefore.TurnNum + 1
              /\ [new EXCEPT !.Outcome = SupportedBefore.Outcome,
                             !.TurnNum = SupportedBefore.TurnNum] = SupportedBefore
              /\ new.TurnNum \in Turns(c)
              /\ c.SignedStateForTurnNum[new.TurnNum].state = new
              /\ \E i \in SigIndices(c.SignedStateForTurnNum[new.TurnNum]) :
                    c.SignedStateForTurnNum[new.TurnNum].sigs[i] = lastOp'.key ]_vars

C3_Witness ==
    /\ lastOp.op = "HandleRequest" /\ lastOp.added
    /\ lastOp.ss.state.TurnNum = 3

\* C4: the outcome HandleRequest writes is, in this order, the request's left
\* destination with amount 0, its right destination with amount 0, and a
\* guarantee to the request's destination of the requested amount whose
\* metadata decodes to the request's (left, right).
C4_OutcomeShape ==
    (lastOp.op = "HandleRequest" /\ lastOp.added) =>
        LET o == lastOp.ss.state.Outcome
            r == lastOp.request
        IN  /\ Len(o) = 3
            /\ o[1] = Allocation(r.Left, 0)
            /\ o[2] = Allocation(r.Right, 0)
            /\ o[3].Destination = r.Destination
            /\ o[3].Amount = r.Amount
            /\ o[3].AllocationType = GuaranteeAllocationType
            /\ ~Decode(o[3].Metadata).err
            /\ Decode(o[3].Metadata).Left = r.Left
            /\ Decode(o[3].Metadata).Right = r.Right

C4_Witness ==
    /\ lastOp.op = "HandleRequest" /\ lastOp.added
    /\ lastOp.request.Kind = "Add"
    /\ lastOp.request.Left = "B" /\ lastOp.request.Right = "A"

\* C5: a request that removes a guarantee makes HandleRequest produce a state
\* without the guarantee allocation, the left and right plain allocations
\* restored to the ledger's total.
C5_RemoveRestoresPlain ==
    [][ ( /\ HandleRequestAdded
          /\ lastOp'.request.Kind = "Remove"
          /\ HasGuaranteeFor(SupportedBefore.Outcome, lastOp'.request.Destination) )
        => LET new == lastOp'.ss.state.Outcome IN
           /\ ~HasGuaranteeFor(new, lastOp'.request.Destination)
           /\ SumAmounts(new) = SumAmounts(PreFundState(ledgers[lastOp'.id]).Outcome) ]_vars

SupportedTurnOf(c) == LatestSupportedState(c).state.TurnNum

\* C6: over HandleRequest, SignLatest and AddSignedState the turn number of a
\* ledger's latest supported state never decreases, and every fully supported
\* state stays retained, unreplaced, at its turn.
C6_SupportedNeverRegresses ==
    [][ lastOp'.op \in {"HandleRequest", "SignLatest", "AddSignedState"} =>
          \A id \in DOMAIN ledgers :
             /\ id \in DOMAIN ledgers'
             /\ HasSupportedState(ledgers[id]) =>
                   /\ HasSupportedState(ledgers'[id])
                   /\ SupportedTurnOf(ledgers'[id]) >= SupportedTurnOf(ledgers[id])
             /\ \A t \in SupportedTurns(ledgers[id]) :
                   /\ t \in SupportedTurns(ledgers'[id])
                   /\ ledgers'[id].SignedStateForTurnNum[t].state =
                         ledgers[id].SignedStateForTurnNum[t].state ]_vars

C6_Witness ==
    /\ lastOp.op = "AddSignedState" /\ lastOp.stale /\ ~lastOp.added
    /\ SupportedTurnOf(ledgers[lastOp.id]) = 2

\* C7: a HandleRequest repeating the call before it (same request, same key,
\* nothing in between) returns normally and leaves the states and signatures
\* retained by the ledger as the first call left them.
C7_RepeatedRequestIsNoOp ==
    [][ (lastOp'.op = "HandleRequest" /\ lastOp'.repeat) =>
          /\ lastOp'.result = "ok"
          /\ lastOp'.ss = lastOp.ss
          /\ ledgers' = ledgers ]_vars

\* C8: HandleRequest or GetLedger naming a ledger id the cranker does not
\* hold is answered with an error value and does not abort the process.
C8_UnknownLedgerIsAnError ==
    (lastOp.op \in {"HandleRequest", "GetLedger"} /\ lastOp.id \notin DOMAIN ledgers)
        => (lastOp.result = "error" /\ ~panicked)

\* a SignLatest call with the counterparty's key right after a HandleRequest
\* that added its state to the same ledger
CountersignsAdded ==
    /\ lastOp.op = "HandleRequest" /\ lastOp.added
    /\ lastOp'.op = "SignLatest" /\ lastOp'.id = lastOp.id
    /\ \E i \in 1..Len(lastOp'.keys) :
          /\ lastOp'.keys[i] \in Participant
          /\ lastOp'.keys[i] # lastOp.key

\* the latest supported state of the ledger is the state HandleRequest added
\* and carries the signatures of both participants
AddedIsSupported ==
    LET c == ledgers'[lastOp.id]
        t == lastOp.ss.state.TurnNum
    IN  /\ ~LatestSupportedState(c).err
        /\ LatestSupportedState(c).state = lastOp.ss.state
        /\ HasAllSignatures(c.SignedStateForTurnNum[t])
        /\ ValidSignatures(c.SignedStateForTurnNum[t])

\* the variables with the operation's name first: a step that changes the
\* name is no stuttering step
opVars == <<lastOp.op, vars>>

\* C21 as stated: after HandleRequest has added the turn-(N+1) state signed by
\* the caller, a SignLatest call with the counterparty's key makes that state
\* the ledger's latest supported state, signed by both participants.
C21_SignLatestSupportsAdded ==
    [][CountersignsAdded => AddedIsSupported]_opVars

\* C21, amended: the same when the state HandleRequest added has the largest
\* turn number the ledger retains.
C21_SignLatestSupportsAddedWhenLargest ==
    [][ ( /\ CountersignsAdded
          /\ lastOp.ss.state.TurnNum = Max(Turns(ledgers[lastOp.id])) )
        => AddedIsSupported ]_opVars

C21_Witness ==
    /\ lastOp.op = "SignLatest" /\ lastOp.keys = <<"B">>
    /\ lastOp.id \in DOMAIN ledgers
    /\ LET c == ledgers[lastOp.id] IN
          /\ ~LatestSupportedState(c).err
          /\ LatestSupportedState(c).state.TurnNum = 2
          /\ LatestSupportedState(c).state.TurnNum = Max(Turns(c))
          /\ HasGuaranteeFor(LatestSupportedState(c).state.Outcome, "V1")

\* C32: two CreateLedger calls on the same LedgerCranker yield ledgers with
\* distinct channel ids: a CreateLedger call yields an id no ledger created
\* before is stored under, so the map gains an entry with every call, and
\* every entry is stored under the id of the ledger it holds.
C32_CreatedLedgersHaveDistinctIds ==
    [][lastOp'.op = "CreateLedger" =>
          /\ lastOp'.id \notin DOMAIN ledgers
          /\ Cardinality(DOMAIN ledgers') = Cardinality(DOMAIN ledgers) + 1
          /\ \A id \in DOMAIN ledgers' : ledgers'[id].Id = id]_opVars

----------------------------------------------------------------------------
(* payments.Voucher, payments.VoucherManager, the RPC server's handler *)

VoucherAmounts == {10, 20, 25, 40}

\* the payer of every payment channel of the model
Payer(channelId) == "A"

\* Signer is the address the voucher's signature recovers to for its channel
\* id and amount
Vouchers ==
    [ChannelId : VirtualChannels, Amount : VoucherAmounts, Signer : {"A", "X"}]

\* VoucherManager.Receive: [err, a, largest].  An error without a change when
\* the signature is not the payer's or the amount does not exceed the amount
\* recorded; otherwise the amount is recorded and a is the increase
Receive(recorded, v) ==
    IF v.Signer # Payer(v.ChannelId) \/ ~(v.Amount > recorded[v.ChannelId])
    THEN [err |-> TRUE, a |-> 0, largest |-> recorded]
    ELSE [err |-> FALSE, a |-> v.Amount - recorded[v.ChannelId],
          largest |-> [recorded EXCEPT ![v.ChannelId] = v.Amount]]

\* Node.ReceiveVoucher hands the voucher to the voucher manager
NodeReceiveVoucher(recorded, v) == Receive(recorded, v)

\* big.Int.Uint64
Uint64(a) == a % WordModulus

\* the handler answering with the voucher's amount
ReceiveVoucherHandlerEchoesAmount(req, res) ==
    IF res.err THEN [value |-> 0, err |-> TRUE]
    ELSE [value |-> Uint64(req.Amount), err |-> FALSE]

\* the handler dropping the node's error
ReceiveVoucherHandlerDropsError(req, res) ==
    [value |-> Uint64(res.a), err |-> FALSE]

\* the ReceiveVoucherRequestMethod case of registerHandlers
ReceiveVoucherHandler(req, res) ==
    IF res.err THEN [value |-> 0, err |-> TRUE]
    ELSE [value |-> Uint64(res.a), err |-> FALSE]

ExampleAmounts == <<10, 25, 20, 40>>
ExampleRecorded == <<10, 25, 25, 40>>
ExampleDeltas == <<10, 15, 0, 15>>
ExampleChannel == "V1"

\* an rpc request ReceiveVoucher(v) served by the handler
ReceiveVoucher(v) ==
    LET res == NodeReceiveVoucher(largest, v)
        out == ReceiveVoucherHandler(v, res)
    IN  /\ largest' = res.largest
        /\ lastOp' = [NoOp EXCEPT !.op = "ReceiveVoucher", !.voucher = v,
                                  !.prior = largest[v.ChannelId],
                                  !.value = out.value, !.err = out.err,
                                  !.result = IF out.err THEN "error" ELSE "ok"]
        /\ seenMax' = [seenMax EXCEPT ![v.ChannelId] =
                          IF v.Signer = Payer(v.ChannelId) /\ v.Amount > @
                          THEN v.Amount ELSE @]
        /\ script' = IF v.ChannelId # ExampleChannel THEN script
                     ELSE IF /\ script >= 0 /\ script < Len(ExampleAmounts)
                             /\ v.Amount = ExampleAmounts[script + 1]
                             /\ v.Signer = Payer(v.ChannelId)
                          THEN script + 1 ELSE -1

VoucherNext ==
    \E v \in Vouchers : ReceiveVoucher(v) /\ UNCHANGED offVoucher

VoucherSpec == Init /\ [][VoucherNext]_vars

----------------------------------------------------------------------------
(* Properties of the voucher path *)

ReceivedVoucher == lastOp.op = "ReceiveVoucher"

\* C9: after every ReceiveVoucher the amount recorded for a channel is the
\* largest validly signed amount presented for it, the value answered is the
\* increase the call caused (0 when it caused none), and the amounts
\* 10, 25, 20, 40 are answered 10, 15, 0, 15 with 10, 25, 25, 40 recorded.
C9_RecordedIsMaxDeltaIsIncrease ==
    /\ \A c \in VirtualChannels : largest[c] = seenMax[c]
    /\ ReceivedVoucher =>
          lastOp.value = largest[lastOp.voucher.ChannelId] - lastOp.prior
    /\ (ReceivedVoucher /\ lastOp.voucher.ChannelId = ExampleChannel /\ script >= 1) =>
          /\ largest[ExampleChannel] = ExampleRecorded[script]
          /\ lastOp.value = ExampleDeltas[script]

C9_Witness ==
    /\ ReceivedVoucher /\ lastOp.voucher.ChannelId = ExampleChannel
    /\ script = Len(ExampleAmounts)
    /\ largest[ExampleChannel] = 40 /\ lastOp.value = 15

\* C10: a voucher whose signature is not the payer's, or whose amount is not
\* strictly greater than the amount recorded, is answered with an error and
\* leaves the recorded amount as it was.
C10_RejectedVoucherChangesNothing ==
    ( /\ ReceivedVoucher
      /\ \/ lastOp.voucher.Signer # Payer(lastOp.voucher.ChannelId)
         \/ lastOp.voucher.Amount <= lastOp.prior )
    => /\ lastOp.err
       /\ largest[lastOp.voucher.ChannelId] = lastOp.prior

C10_Witness ==
    /\ ReceivedVoucher /\ lastOp.err
    /\ lastOp.voucher.Signer = Payer(lastOp.voucher.ChannelId)
    /\ lastOp.voucher.Amount = lastOp.prior
    /\ lastOp.prior > 0

----------------------------------------------------------------------------
(* client/query.go: the channel queries, over the store and the voucher manager *)

Proposed == "Proposed"
Ready == "Ready"
Closing == "Closing"
Complete == "Complete"
ChannelStatus == {Proposed, Ready, Closing, Complete}

PostFundTurnNum == 1

\* the channels of the store: a payment channel in which A pays B, and the
\* ledger channel of A and B; this node is B
PaymentChannels == {"V1"}
LedgerChannels == {"L1"}
Me == "B"
InitialOutcome(id) ==
    IF id \in PaymentChannels
    THEN <<Allocation("A", 40), Allocation("B", 0)>>
    ELSE <<Allocation("A", 100), Allocation("B", 100)>>

\* channel.New for the initial state of channel id
NewChannel(id) ==
    LET initialState ==
            [ChainId |-> ChainId,
             Participants |-> <<"A", "B">>,
             ChannelNonce |-> 0,
             AppDefinition |-> NoAddress,
             ChallengeDuration |-> ChallengeDuration,
             AppData |-> <<>>,
             Outcome |-> InitialOutcome(id),
             TurnNum |-> 0,
             IsFinal |-> FALSE]
    IN  [NewTwoPartyLedger(initialState, IndexOf(initialState.Participants, Me))
            EXCEPT !.Id = id]

\* Channel.PostFundComplete: the post-fund state carries every signature
PostFundComplete(c) ==
    /\ PostFundTurnNum \in Turns(c)
    /\ HasAllSignatures(c.SignedStateForTurnNum[PostFundTurnNum])

\* Channel.FinalSignedByMe: some retained final state carries my signature
FinalSignedByMe(c) ==
    \E t \in Turns(c) :
        /\ c.SignedStateForTurnNum[t].state.IsFinal
        /\ c.MyIndex \in SigIndices(c.SignedStateForTurnNum[t])

\* Channel.FinalCompleted: the latest supported state is final
FinalCompleted(c) ==
    /\ HasSupportedState(c)
    /\ LatestSupportedState(c).state.IsFinal

\* getStatusFromChannel testing the post-fund round first
getStatusFromChannelPostFundFirst(c) ==
    IF ~PostFundComplete(c) THEN Proposed
    ELSE IF FinalSignedByMe(c)
         THEN IF FinalCompleted(c) THEN Complete ELSE Closing
         ELSE Ready

getStatusFromChannel(c) ==
    IF FinalSignedByMe(c)
    THEN IF FinalCompleted(c) THEN Complete ELSE Closing
    ELSE IF ~PostFundComplete(c) THEN Proposed
         ELSE Ready

\* the turn of the state getLatestSupported returns: the latest supported
\* state's, or the pre-fund state's when no state is supported
LatestSupportedTurn(c) ==
    IF HasSupportedState(c) THEN Max(SupportedTurns(c)) ELSE 0

\* getLatestSupported answering the pre-fund state whatever is supported
getLatestSupportedPreFund(c) == PreFundState(c)

getLatestSupported(c) == c.SignedStateForTurnNum[LatestSupportedTurn(c)].state

\* getPaymentChannelBalance reading the first allocation for both amounts
getPaymentChannelBalanceOfPayer(participants, outcome) ==
    [Payer |-> participants[1],
     Payee |-> participants[Len(participants)],
     PaidSoFar |-> outcome[1].Amount,
     RemainingFunds |-> outcome[1].Amount]

\* PaidSoFar and RemainingFunds are the *big.Int of the outcome's second and
\* first allocation: the balance holds the allocations' amounts by reference
getPaymentChannelBalance(participants, outcome) ==
    [Payer |-> participants[1],
     Payee |-> participants[Len(participants)],
     PaidSoFar |-> outcome[2].Amount,
     RemainingFunds |-> outcome[1].Amount]

getLedgerBalanceFromState(latest) ==
    [Client |-> latest.Participants[1],
     ClientBalance |-> latest.Outcome[1].Amount,
     Hub |-> latest.Participants[2],
     HubBalance |-> latest.Outcome[2].Amount]

\* VoucherManager.ChannelRegistered, VoucherManager.Balance
ChannelRegistered(recorded, id) == id \in DOMAIN recorded
StartingBalance(id) == SumAmounts(InitialOutcome(id))
Balance(recorded, id) ==
    [Paid |-> recorded[id], Remaining |-> StartingBalance(id) - recorded[id]]

\* MockStore.getChannelById: the map holds channel.Channel values and the
\* lookup copies the struct, not what it points to; the signed states and
\* the amounts of their outcomes are those of the stored channel
GetChannelById(chs, id) ==
    IF id \in DOMAIN chs THEN [ok |-> TRUE, c |-> chs[id]]
    ELSE [ok |-> FALSE, c |-> None]

\* big.Int.Set on the amounts of the first two allocations of the state of
\* turn t of channel c
SetAmounts(c, t, remaining, paid) ==
    [c EXCEPT !.SignedStateForTurnNum[t].state.Outcome =
        [i \in DOMAIN @ |->
            IF i = 1 THEN [@[i] EXCEPT !.Amount = remaining]
            ELSE IF i = 2 THEN [@[i] EXCEPT !.Amount = paid]
            ELSE @[i]]]

\* protocols.ObjectiveId: the type prefix and the channel id it is built from
VirtualDefundPrefix == "VirtualDefund-"
ObjectiveId(prefix, channelId) == <<prefix, channelId>>

Unapproved == "Unapproved"
Approved == "Approved"
Rejected == "Rejected"
Completed == "Completed"

\* Store.GetObjectiveById as the queries use it: the objective stored under
\* the id, terminal objectives included
StoreGetObjectiveById(objs, id) ==
    IF id \in DOMAIN objs THEN [err |-> FALSE, obj |-> objs[id]]
    ELSE [err |-> TRUE, obj |-> None]

\* Store.GetConsensusChannelById
GetConsensusChannelById(cons, id) ==
    IF id \in DOMAIN cons THEN [err |-> FALSE, con |-> cons[id]]
    ELSE [err |-> TRUE, con |-> None]

NoInfo == [err |-> TRUE, Status |-> None, paid |-> 0, remaining |-> 0, via |-> None]

\* the status answered for a defund objective, any terminal one being Complete
DefundStatusTerminalIsComplete(defund) ==
    IF defund.Status \in {Completed, Rejected} THEN Complete ELSE Closing

\* query.go:131-135, the status answered for a defund objective
DefundStatus(defund) ==
    IF defund.Status = Completed THEN Complete ELSE Closing

\* getPaymentChannelInfo: [err, Status, paid, remaining, via, channels], where
\* channels is the store's channel map when the call returns
getPaymentChannelInfo(id, chs, objs, recorded) ==
    LET fetched == StoreGetObjectiveById(objs, ObjectiveId(VirtualDefundPrefix, id))
        isVirtualDefund == ~fetched.err
    IN
    IF isVirtualDefund
    THEN LET defund == fetched.obj
             balance == getPaymentChannelBalance(defund.VFixed.Participants,
                                                 defund.FinalOutcome)
         IN  [err |-> FALSE,
              Status |-> DefundStatus(defund),
              paid |-> balance.PaidSoFar, remaining |-> balance.RemainingFunds,
              via |-> "objective", channels |-> chs]
    ELSE
    LET got == GetChannelById(chs, id) IN
    IF ~got.ok THEN [NoInfo EXCEPT !.via = "channel"] @@ [channels |-> chs]
    ELSE
    LET c == got.c
        status == getStatusFromChannel(c)
        balance == getPaymentChannelBalance(PreFundState(c).Participants,
                                            getLatestSupported(c).Outcome)
    IN  IF status = Ready /\ ChannelRegistered(recorded, id)
        THEN LET voucherBal == Balance(recorded, id) IN
             \* balance.PaidSoFar.Set, balance.RemainingFunds.Set: written
             \* into the amounts the balance refers to
             [err |-> FALSE, Status |-> status,
              paid |-> voucherBal.Paid, remaining |-> voucherBal.Remaining,
              via |-> "channel",
              channels |-> [chs EXCEPT ![id] =
                              SetAmounts(c, LatestSupportedTurn(c),
                                         voucherBal.Remaining, voucherBal.Paid)]]
        ELSE [err |-> FALSE, Status |-> status,
              paid |-> balance.PaidSoFar, remaining |-> balance.RemainingFunds,
              via |-> "channel", channels |-> chs]

\* getLedgerChannelInfo: [err, Status, paid (the hub's balance), remaining
\* (the client's balance), via]
getLedgerChannelInfo(id, chs, cons) ==
    LET got == GetChannelById(chs, id) IN
    IF got.ok
    THEN LET balance == getLedgerBalanceFromState(getLatestSupported(got.c)) IN
         [err |-> FALSE, Status |-> getStatusFromChannel(got.c),
          paid |-> balance.HubBalance, remaining |-> balance.ClientBalance,
          via |-> "channel"]
    ELSE
    LET fetched == GetConsensusChannelById(cons, id) IN
    IF fetched.err THEN [NoInfo EXCEPT !.via = "consensus"]
    ELSE LET balance == getLedgerBalanceFromState(fetched.con.state) IN
         [err |-> FALSE, Status |-> Ready,
          paid |-> balance.HubBalance, remaining |-> balance.ClientBalance,
          via |-> "consensus"]

\* ---- the calls

QueryOp(op, id, info) ==
    [NoOp EXCEPT !.op = op, !.id = id,
                 !.result = IF info.err THEN "error" ELSE "ok",
                 !.err = info.err, !.status = info.Status,
                 !.paid = info.paid, !.remaining = info.remaining,
                 !.via = info.via]

GetPaymentChannel(id) ==
    LET info == getPaymentChannelInfo(id, channels, objectives, largest) IN
    /\ channels' = info.channels
    /\ lastOp' = QueryOp("GetPaymentChannel", id, info)
    /\ UNCHANGED <<consensusChannels, objectives, voucherVars>>

GetLedgerChannel(id) ==
    LET info == getLedgerChannelInfo(id, channels, consensusChannels) IN
    /\ lastOp' = QueryOp("GetLedgerChannel", id, info)
    /\ UNCHANGED <<storeVars, voucherVars>>

\* the engine stores a new channel
CreateChannel(id) ==
    /\ id \notin DOMAIN channels
    /\ id \notin DOMAIN consensusChannels
    /\ channels' = [i \in DOMAIN channels \cup {id} |->
                       IF i = id THEN NewChannel(id) ELSE channels[i]]
    /\ lastOp' = [NoOp EXCEPT !.op = "CreateChannel", !.id = id]
    /\ UNCHANGED <<consensusChannels, objectives, voucherVars>>

\* the engine adds, to a stored channel, the signatures of secretKeys on the
\* state of turn t: on the retained state of that turn, or else on a copy of
\* the latest supported state with that turn number and final flag, in which
\* the amount moved has gone from the first allocation to the second
SignStoredState(id, t, final, secretKeys, moved) ==
    LET c == channels[id]
        ss == IF t \in Turns(c) THEN c.SignedStateForTurnNum[t]
              ELSE NewSignedState([Clone(getLatestSupported(c)) EXCEPT
                                      !.TurnNum = t, !.IsFinal = final,
                                      !.Outcome[1].Amount = @ - moved,
                                      !.Outcome[2].Amount = @ + moved])
        add == AddSignedState(c, SignWithAll(ss, secretKeys))
    IN  /\ id \in DOMAIN channels
        /\ t \in Turns(c) => final = c.SignedStateForTurnNum[t].state.IsFinal
        /\ channels' = [channels EXCEPT ![id] = add.c]
        /\ lastOp' = [NoOp EXCEPT !.op = "SignStoredState", !.id = id,
                                  !.added = add.ok]
        /\ UNCHANGED <<consensusChannels, objectives, voucherVars>>

\* once its post-fund round is complete a ledger channel is kept as a
\* consensus channel, holding its one agreed state
SetConsensusChannel(id) ==
    /\ id \in DOMAIN channels
    /\ id \in LedgerChannels
    /\ PostFundComplete(channels[id])
    /\ ~FinalSignedByMe(channels[id])
    /\ consensusChannels' =
          [i \in DOMAIN consensusChannels \cup {id} |->
              IF i = id THEN [Id |-> id, state |-> getLatestSupported(channels[id])]
              ELSE consensusChannels[i]]
    /\ channels' = [i \in DOMAIN channels \ {id} |-> channels[i]]
    /\ lastOp' = [NoOp EXCEPT !.op = "SetConsensusChannel", !.id = id]
    /\ UNCHANGED <<objectives, voucherVars>>

QueryTurns == {0, 1, 2}
QueryKeyLists(id) ==
    IF id \in PaymentChannels THEN {<<"A">>, <<"B">>} ELSE {<<"A", "B">>}
\* a ledger channel's states after the post-fund state may shift 5
QueryMoves(id) == IF id \in LedgerChannels THEN {0, 5} ELSE {0}
QueryVouchers ==
    {v \in Vouchers : /\ v.ChannelId \in PaymentChannels
                      /\ v.Signer = Payer(v.ChannelId)
                      /\ v.Amount \in {10, 25}}

QueryNext ==
    \/ \E id \in PaymentChannels \cup LedgerChannels :
          CreateChannel(id) /\ UNCHANGED offQuery
    \/ \E id \in DOMAIN channels, t \in QueryTurns, final \in BOOLEAN :
          \E ks \in QueryKeyLists(id), moved \in QueryMoves(id) :
             /\ final => t > PostFundTurnNum
             /\ moved > 0 => t > PostFundTurnNum /\ t \notin Turns(channels[id])
             /\ SignStoredState(id, t, final, ks, moved) /\ UNCHANGED offQuery
    \/ \E id \in LedgerChannels : SetConsensusChannel(id) /\ UNCHANGED offQuery
    \/ \E v \in QueryVouchers :
          ReceiveVoucher(v) /\ UNCHANGED <<storeVars, offQuery>>
    \/ \E id \in PaymentChannels : GetPaymentChannel(id) /\ UNCHANGED offQuery
    \/ \E id \in LedgerChannels : GetLedgerChannel(id) /\ UNCHANGED offQuery

QuerySpec == Init /\ [][QueryNext]_vars

----------------------------------------------------------------------------
(* Properties of the channel queries *)

IsQuery(op) == op.op \in {"GetPaymentChannel", "GetLedgerChannel"}
\* the query answered from a channel of the store
AnsweredFromChannel(op) == IsQuery(op) /\ op.via = "channel" /\ ~op.err

\* C11, as claimed: the status answered for a stored channel is Proposed if
\* its post-fund round is incomplete; otherwise Complete if a final state is
\* signed by me and fully supported; otherwise Closing if a final state is
\* signed by me; otherwise Ready.
C11_ProposedBeforeFinal ==
    [][ AnsweredFromChannel(lastOp') =>
          LET c == channels[lastOp'.id] IN
          lastOp'.status =
             IF ~PostFundComplete(c) THEN Proposed
             ELSE IF FinalSignedByMe(c) /\ FinalCompleted(c) THEN Complete
             ELSE IF FinalSignedByMe(c) THEN Closing
             ELSE Ready ]_vars

\* C11, amended: the status answered for a stored channel is Complete if a
\* final state is signed by me and fully supported; otherwise Closing if a
\* final state is signed by me; otherwise Proposed if the post-fund round is
\* incomplete; otherwise Ready.
C11_FinalBeforeProposed ==
    [][ AnsweredFromChannel(lastOp') =>
          LET c == channels[lastOp'.id] IN
          lastOp'.status =
             IF FinalSignedByMe(c) /\ FinalCompleted(c) THEN Complete
             ELSE IF FinalSignedByMe(c) THEN Closing
             ELSE IF ~PostFundComplete(c) THEN Proposed
             ELSE Ready ]_vars

\* a channel whose final state I signed before its post-fund round was
\* complete has been queried
C11_Witness ==
    /\ AnsweredFromChannel(lastOp)
    /\ lastOp.id \in DOMAIN channels
    /\ ~PostFundComplete(channels[lastOp.id])
    /\ FinalSignedByMe(channels[lastOp.id])
    /\ lastOp.status \in {Closing, Complete}

\* C12: a query of a payment channel or of a ledger channel leaves the
\* stored channels (the amounts of their states included), the stored
\* objectives and the voucher manager's recorded amounts as they were.
C12_QueriesAreReadOnly ==
    [][ IsQuery(lastOp') =>
          /\ channels' = channels
          /\ consensusChannels' = consensusChannels
          /\ objectives' = objectives
          /\ largest' = largest ]_vars

\* the state a ledger channel's balance is read from: its latest supported
\* state, or its pre-fund state when no state is supported
BalanceState(c) ==
    IF HasSupportedState(c) THEN LatestSupportedState(c).state
    ELSE PreFundState(c)

\* C24: getLedgerChannelInfo answers, for a stored Channel, its status and
\* the balance of its latest supported state (of its pre-fund state when no
\* state is supported); otherwise, for a stored ConsensusChannel, Ready and
\* the balance of its consensus round; otherwise an error; and the store is
\* as it was in every case.
C24_LedgerInfoFromChannelElseConsensusElseError ==
    [][ lastOp'.op = "GetLedgerChannel" =>
          LET id == lastOp'.id IN
          /\ storeVars' = storeVars
          /\ IF id \in DOMAIN channels
             THEN /\ ~lastOp'.err
                  /\ lastOp'.status = getStatusFromChannel(channels[id])
                  /\ lastOp'.remaining =
                        BalanceState(channels[id]).Outcome[1].Amount
                  /\ lastOp'.paid =
                        BalanceState(channels[id]).Outcome[2].Amount
             ELSE IF id \in DOMAIN consensusChannels
             THEN /\ ~lastOp'.err
                  /\ lastOp'.status = Ready
                  /\ lastOp'.remaining =
                        consensusChannels[id].state.Outcome[1].Amount
                  /\ lastOp'.paid =
                        consensusChannels[id].state.Outcome[2].Amount
             ELSE lastOp'.err ]_opVars

\* the query has answered for a stored channel whose latest supported state
\* holds other amounts than its pre-fund state
C24_Witness ==
    /\ lastOp.op = "GetLedgerChannel" /\ ~lastOp.err /\ lastOp.via = "channel"
    /\ lastOp.id \in DOMAIN channels
    /\ lastOp.remaining = 95 /\ lastOp.paid = 105
    /\ PreFundState(channels[lastOp.id]).Outcome[1].Amount = 100

----------------------------------------------------------------------------
(* store.MockStore *)

MaxRev == 3     \* the objectives are set at most this many times

DirectFundPrefix == "DirectFunding-"
DirectDefundPrefix == "DirectDefunding-"
VirtualFundPrefix == "VirtualFund-"

DirectFund == "DirectFund"
DirectDefund == "DirectDefund"
VirtualFund == "VirtualFund"
VirtualDefund == "VirtualDefund"
Variants == {DirectFund, DirectDefund, VirtualFund, VirtualDefund}

PrefixOf(kind) ==
    CASE kind = DirectFund -> DirectFundPrefix
      [] kind = DirectDefund -> DirectDefundPrefix
      [] kind = VirtualFund -> VirtualFundPrefix
      [] kind = VirtualDefund -> VirtualDefundPrefix

\* a channel.Channel as the store reads it: its id, its participants, and
\* rev, standing for the rest of its data (the revision that wrote it)
NilChannel == [Id |-> NoAddress, Participants |-> <<>>, rev |-> 0]
StoreParticipants(id) ==
    IF id = "L1" THEN <<"A", "B">> ELSE <<"A", "I", "B">>
StoreChannel(id, rev) ==
    [Id |-> id, Participants |-> StoreParticipants(id), rev |-> rev]

\* an objective: its variant, rev (standing for its status and other own
\* data) and the channels it refers to: C for the direct variants, V and
\* the ledger ToMyRight for the virtual ones
NewObjective(kind, rev) ==
    [kind |-> kind, rev |-> rev,
     C |-> IF kind \in {DirectFund, DirectDefund} THEN StoreChannel("L1", rev)
           ELSE NilChannel,
     V |-> IF kind \in {VirtualFund, VirtualDefund} THEN StoreChannel("V1", rev)
           ELSE NilChannel,
     ToMyRight |-> IF kind = VirtualFund THEN StoreChannel("L1", rev)
                   ELSE NilChannel]

\* Objective.Id: the variant's prefix and the id of its channel
Id(obj) ==
    ObjectiveId(PrefixOf(obj.kind),
                IF obj.kind \in {DirectFund, DirectDefund} THEN obj.C.Id ELSE obj.V.Id)

\* Objective.Channels
Channels(obj) ==
    SelectSeq(<<obj.C, obj.V, obj.ToMyRight>>, LAMBDA ch : ch.Id # NoAddress)

\* Objective.MarshalJSON: the objective's own data and the ids of its channels
MarshalJSON(obj) ==
    [kind |-> obj.kind, rev |-> obj.rev,
     C |-> obj.C.Id, V |-> obj.V.Id, ToMyRight |-> obj.ToMyRight.Id]

\* directfund.Objective.UnmarshalJSON: a direct-fund objective with the
\* fields the data has under a direct-fund objective's names
UnmarshalDirectFund(data) ==
    [kind |-> DirectFund, rev |-> data.rev,
     C |-> [NilChannel EXCEPT !.Id = data.C],
     V |-> NilChannel, ToMyRight |-> NilChannel]

IsDirectFundObjective(id) == id[1] = DirectFundPrefix
IsVirtualFundObjective(id) == id[1] = VirtualFundPrefix

decodeObjective(id, data) ==
    IF IsDirectFundObjective(id)
    THEN [err |-> FALSE, obj |-> UnmarshalDirectFund(data)]
    ELSE IF IsVirtualFundObjective(id)
    THEN [err |-> FALSE, obj |-> UnmarshalDirectFund(data)]
    ELSE [err |-> TRUE, obj |-> None]

\* populateChannelData: [err, obj]
populateChannelData(obj, chs) ==
    IF obj.kind = DirectFund
    THEN LET ch == GetChannelById(chs, obj.C.Id) IN
         IF ~ch.ok THEN [err |-> TRUE, obj |-> None]
         ELSE [err |-> FALSE, obj |-> [obj EXCEPT !.C = ch.c]]
    ELSE IF obj.kind = VirtualFund
    THEN LET v == GetChannelById(chs, obj.V.Id)
             right == GetChannelById(chs, obj.ToMyRight.Id)
         IN  IF ~v.ok THEN [err |-> TRUE, obj |-> None]
             ELSE IF obj.ToMyRight.Id = NoAddress
             THEN [err |-> FALSE, obj |-> [obj EXCEPT !.V = v.c]]
             ELSE IF ~right.ok THEN [err |-> TRUE, obj |-> None]
             ELSE [err |-> FALSE,
                   obj |-> [obj EXCEPT !.V = v.c, !.ToMyRight = right.c]]
    ELSE [err |-> TRUE, obj |-> None]

\* MockStore.GetObjectiveById run without interruption: [err, obj]
GetObjectiveById(objs, chs, id) ==
    IF id \notin DOMAIN objs THEN [err |-> TRUE, obj |-> None]
    ELSE LET dec == decodeObjective(id, objs[id]) IN
         IF dec.err THEN [err |-> TRUE, obj |-> None]
         ELSE populateChannelData(dec.obj, chs)

StoreObjectiveIds == {ObjectiveId(PrefixOf(DirectFund), "L1"),
                      ObjectiveId(PrefixOf(DirectDefund), "L1"),
                      ObjectiveId(PrefixOf(VirtualFund), "V1"),
                      ObjectiveId(PrefixOf(VirtualDefund), "V1")}

\* what GetObjectiveById answers, for each id, from the store as it is
Snapshot(objs, chs) ==
    {<<id, GetObjectiveById(objs, chs, id)>> : id \in StoreObjectiveIds}

Put(map, key, value) ==
    [k \in DOMAIN map \cup {key} |-> IF k = key THEN value ELSE map[k]]

\* the revision the engine's next SetObjective writes
NextRev ==
    1 + Max({0} \cup {objectives[id].rev : id \in DOMAIN objectives})

\* ---- the engine loop: SetObjective(obj), lines 66-72, then one SetChannel
\* per channel of the objective, lines 74-79

SetObjectiveBegin(obj) ==
    /\ setObjective = <<>>
    /\ objectives' = Put(objectives, Id(obj), MarshalJSON(obj))
    /\ setObjective' = Channels(obj)
    /\ lastOp' = [NoOp EXCEPT !.op = "SetObjective", !.id = Id(obj),
                              !.obj = obj, !.result = "running"]
    /\ UNCHANGED <<channels, getObjective, snapshots>>

SetObjectiveSetChannel ==
    /\ setObjective # <<>>
    /\ channels' = Put(channels, Head(setObjective).Id, Head(setObjective))
    /\ setObjective' = Tail(setObjective)
    /\ snapshots' = IF Tail(setObjective) = <<>>
                    THEN snapshots \cup Snapshot(objectives, channels')
                    ELSE snapshots
    /\ lastOp' = [NoOp EXCEPT !.op = "SetChannel", !.id = Head(setObjective).Id,
                              !.result = IF Tail(setObjective) = <<>>
                                         THEN "ok" ELSE "running"]
    /\ UNCHANGED <<objectives, getObjective>>

\* ---- another caller: GetObjectiveById(id), lines 43-53, then
\* populateChannelData, line 55

ReadOp(op, id, res) ==
    [NoOp EXCEPT !.op = op, !.id = id, !.err = res.err, !.obj = res.obj,
                 !.result = IF res.err THEN "error" ELSE "ok"]

GetObjectiveByIdBegin(id) ==
    /\ getObjective = <<>>
    /\ IF id \notin DOMAIN objectives \/ decodeObjective(id, objectives[id]).err
       THEN /\ lastOp' = ReadOp("GetObjectiveById", id, [err |-> TRUE, obj |-> None])
            /\ UNCHANGED getObjective
       ELSE /\ getObjective' = <<[id |-> id,
                                  obj |-> decodeObjective(id, objectives[id]).obj]>>
            /\ lastOp' = [NoOp EXCEPT !.op = "decodeObjective", !.id = id]
    /\ UNCHANGED <<objectives, channels, setObjective, snapshots>>

GetObjectiveByIdPopulate ==
    /\ getObjective # <<>>
    /\ lastOp' = ReadOp("GetObjectiveById", getObjective[1].id,
                        populateChannelData(getObjective[1].obj, channels))
    /\ getObjective' = <<>>
    /\ UNCHANGED <<objectives, channels, setObjective, snapshots>>

\* MockStore.GetTwoPartyLedger: [ok, ledgers], ledgers the channels the range
\* over the map can stop at
TwoPartyLedgers(chs, firstParty, secondParty) ==
    {id \in DOMAIN chs :
        /\ Len(chs[id].Participants) = 2
        /\ chs[id].Participants[1] = firstParty
        /\ chs[id].Participants[2] = secondParty}

GetTwoPartyLedger(firstParty, secondParty) ==
    LET found == TwoPartyLedgers(channels, firstParty, secondParty) IN
    /\ lastOp' = [NoOp EXCEPT !.op = "GetTwoPartyLedger",
                              !.request = <<firstParty, secondParty>>,
                              !.added = found # {},
                              !.result = IF found # {} THEN "ok" ELSE "none"]
    /\ UNCHANGED <<objectives, channels, mockVars>>

\* the orders a range over a map with these keys can visit them in
Orders(keys) ==
    {order \in [1..Cardinality(keys) -> keys] :
        \A i, j \in 1..Cardinality(keys) : order[i] = order[j] => i = j}

RECURSIVE ObjectiveByChannelId(_, _, _, _)
\* MockStore.GetObjectiveByChannelId, the range over ms.objectives visiting
\* the ids in the given order: [ok, obj]
ObjectiveByChannelId(objs, chs, order, channelId) ==
    IF order = <<>> THEN [ok |-> FALSE, obj |-> None]
    ELSE LET dec == decodeObjective(Head(order), objs[Head(order)]) IN
         IF dec.err THEN [ok |-> FALSE, obj |-> None]
         ELSE IF \E i \in DOMAIN Channels(dec.obj) :
                    Channels(dec.obj)[i].Id = channelId
         THEN LET res == populateChannelData(dec.obj, chs) IN
              IF res.err THEN [ok |-> FALSE, obj |-> None]
              ELSE [ok |-> TRUE, obj |-> res.obj]
         ELSE ObjectiveByChannelId(objs, chs, Tail(order), channelId)

GetObjectiveByChannelId(channelId, order) ==
    LET res == ObjectiveByChannelId(objectives, channels, order, channelId) IN
    /\ lastOp' = [NoOp EXCEPT !.op = "GetObjectiveByChannelId",
                              !.id = channelId, !.request = order,
                              !.added = res.ok, !.obj = res.obj,
                              !.result = IF res.ok THEN "ok" ELSE "none"]
    /\ UNCHANGED <<objectives, channels, mockVars>>

StoreChannelIds == {"L1", "V1"}

Parties == {"A", "B", "I"}

StoreNext ==
    \/ \E k \in Variants :
          /\ NextRev <= MaxRev
          /\ SetObjectiveBegin(NewObjective(k, NextRev)) /\ UNCHANGED offStore
    \/ SetObjectiveSetChannel /\ UNCHANGED offStore
    \/ \E id \in StoreObjectiveIds : GetObjectiveByIdBegin(id) /\ UNCHANGED offStore
    \/ GetObjectiveByIdPopulate /\ UNCHANGED offStore
    \/ \E a \in Parties, b \in Parties :
          a # b /\ GetTwoPartyLedger(a, b) /\ UNCHANGED offStore
    \/ \E channelId \in StoreChannelIds, order \in Orders(DOMAIN objectives) :
          GetObjectiveByChannelId(channelId, order) /\ UNCHANGED offStore

StoreSpec == Init /\ [][StoreNext]_vars

----------------------------------------------------------------------------
(* Properties of the store *)

ReadObjective == lastOp.op = "GetObjectiveById"

\* C13: a GetObjectiveById running while the engine loop runs SetObjective
\* answers what it would answer on the store as it was before some
\* SetObjective or after it: never a new objective with the old data of a
\* channel it refers to, nor an old objective with the new data.
C13_ReadsSeeWholeWrites ==
    (ReadObjective /\ ~lastOp.err) => <<lastOp.id, [err |-> FALSE, obj |-> lastOp.obj]>> \in snapshots

\* C14: GetObjectiveById with the id of an objective stored by a completed
\* SetObjective succeeds, and answers an objective of the variant the id's
\* prefix names, with that id and with the stored data of its channels.
C14_StoredObjectiveComesBack ==
    (ReadObjective /\ setObjective = <<>> /\ lastOp.id \in DOMAIN objectives) =>
        /\ ~lastOp.err
        /\ PrefixOf(lastOp.obj.kind) = lastOp.id[1]
        /\ Id(lastOp.obj) = lastOp.id
        /\ \A i \in DOMAIN Channels(lastOp.obj) :
              LET ch == Channels(lastOp.obj)[i] IN
              ch.Id \in DOMAIN channels /\ ch = channels[ch.Id]

\* C17: GetTwoPartyLedger(a, b) answers ok exactly when the store holds a
\* channel whose two participants are a and b, in either order.
C17_LedgerFoundInEitherOrder ==
    lastOp.op = "GetTwoPartyLedger" =>
        (lastOp.added <=>
            \E id \in DOMAIN channels :
                /\ Len(channels[id].Participants) = 2
                /\ {channels[id].Participants[1], channels[id].Participants[2]}
                      = {lastOp.request[1], lastOp.request[2]})

\* a stored objective refers to the channel
References(data, channelId) == channelId \in {data.C, data.V, data.ToMyRight}

\* C31: GetObjectiveByChannelId(c) answers an objective whenever a stored
\* objective refers to channel c, whatever other objectives are stored and
\* in whatever order the stored objectives are visited; a second call on the
\* same store answers the same as the first.  The store is one no
\* SetObjective is at work on.
C31_FoundWheneverReferencedInAnyOrder ==
    [][lastOp'.op = "GetObjectiveByChannelId" /\ setObjective = <<>> =>
          /\ (\E id \in DOMAIN objectives :
                    References(objectives[id], lastOp'.id)) => lastOp'.added
          /\ \A order \in Orders(DOMAIN objectives) :
                LET again == ObjectiveByChannelId(objectives, channels, order,
                                                  lastOp'.id)
                IN  /\ again.ok = lastOp'.added
                    /\ again.ok => again.obj = lastOp'.obj]_opVars

----------------------------------------------------------------------------
(* client.Client: the API calls *)

\* the arguments the application passes
Counterparties == {"B", NoAddress}
ChallengeDurations == {0, ChallengeDuration}     \* uint32
OutcomeAmounts == {-5, 0, 100}                   \* *big.Int
ChannelIdArgs == {"L1", NoAddress}
PayAmounts == {0, 10}

\* directfund / virtualfund / directdefund / virtualdefund.NewObjectiveRequest,
\* as the client calls them: the arguments in, one request out
NewObjectiveRequest(kind, counterParty, challengeDuration, amount, channelId) ==
    [kind |-> kind, CounterParty |-> counterParty,
     ChallengeDuration |-> challengeDuration,
     Outcome |-> <<Allocation("A", amount), Allocation(counterParty, amount)>>,
     ChannelId |-> channelId]

\* a call that takes the objective as started from the beginning
NewCallStarted(method, request) ==
    <<[method |-> method, request |-> request, started |-> TRUE]>>

\* the call in progress: its request and whether the engine has signalled
\* that the objective started
NewCall(method, request) ==
    <<[method |-> method, request |-> request, started |-> FALSE]>>

\* c.engine.ObjectiveRequestsFromAPI <- objectiveRequest, after which the
\* caller is in objectiveRequest.WaitForObjectiveToStart()
SendObjectiveRequest(method, request) ==
    /\ client.call = <<>>
    /\ engine' = [engine EXCEPT !.ObjectiveRequestsFromAPI = Append(@, request)]
    /\ client' = [client EXCEPT !.call = NewCall(method, request)]
    /\ lastOp' = [NoOp EXCEPT !.op = method, !.request = request,
                              !.result = "waiting"]
    /\ UNCHANGED <<handler, history>>

CreateVirtualPaymentChannel(CounterParty, challengeDuration, amount) ==
    SendObjectiveRequest("CreateVirtualPaymentChannel",
        NewObjectiveRequest(VirtualFund, CounterParty, challengeDuration, amount,
                            NoAddress))

CloseVirtualChannel(channelId) ==
    SendObjectiveRequest("CloseVirtualChannel",
        NewObjectiveRequest(VirtualDefund, NoAddress, 0, 0, channelId))

CreateLedgerChannel(Counterparty, challengeDuration, amount) ==
    SendObjectiveRequest("CreateLedgerChannel",
        NewObjectiveRequest(DirectFund, Counterparty, challengeDuration, amount,
                            NoAddress))

CloseLedgerChannel(channelId) ==
    SendObjectiveRequest("CloseLedgerChannel",
        NewObjectiveRequest(DirectDefund, NoAddress, 0, 0, channelId))

\* the call returns once the objective has started
ReturnResponse ==
    /\ client.call # <<>>
    /\ client.call[1].started
    /\ client' = [client EXCEPT !.call = <<>>]
    /\ lastOp' = [NoOp EXCEPT !.op = client.call[1].method,
                              !.request = client.call[1].request,
                              !.result = "ok"]
    /\ UNCHANGED <<engine, handler, history>>

\* Pay sends the payment request and returns
Pay(channelId, amount) ==
    /\ client.call = <<>>
    /\ Len(engine.PaymentRequestsFromAPI) = 0
    /\ engine' = [engine EXCEPT !.PaymentRequestsFromAPI =
                     Append(@, [ChannelId |-> channelId, Amount |-> amount])]
    /\ lastOp' = [NoOp EXCEPT !.op = "Pay", !.id = channelId, !.value = amount,
                              !.result = "ok"]
    /\ UNCHANGED <<client, handler, history>>

\* the engine loop receives the objective request at the head of the queue
\* and signals that its objective started
EngineTakesObjectiveRequest ==
    /\ engine.ObjectiveRequestsFromAPI # <<>>
    /\ engine' = [engine EXCEPT !.ObjectiveRequestsFromAPI = Tail(@)]
    /\ client' = [client EXCEPT !.call =
                     IF @ # <<>> /\ @[1].request = Head(engine.ObjectiveRequestsFromAPI)
                     THEN <<[@[1] EXCEPT !.started = TRUE]>> ELSE @]
    /\ lastOp' = [NoOp EXCEPT !.op = "EngineTakesObjectiveRequest",
                              !.request = Head(engine.ObjectiveRequestsFromAPI)]
    /\ UNCHANGED <<handler, history>>

EngineTakesPaymentRequest ==
    /\ engine.PaymentRequestsFromAPI # <<>>
    /\ engine' = [engine EXCEPT !.PaymentRequestsFromAPI = Tail(@)]
    /\ lastOp' = [NoOp EXCEPT !.op = "EngineTakesPaymentRequest",
                              !.id = Head(engine.PaymentRequestsFromAPI).ChannelId,
                              !.value = Head(engine.PaymentRequestsFromAPI).Amount]
    /\ UNCHANGED <<client, handler, history>>

ApiNext ==
    \/ \E cp \in Counterparties, d \in ChallengeDurations, a \in OutcomeAmounts :
          CreateVirtualPaymentChannel(cp, d, a) /\ UNCHANGED offClient
    \/ \E id \in ChannelIdArgs : CloseVirtualChannel(id) /\ UNCHANGED offClient
    \/ \E cp \in Counterparties, d \in ChallengeDurations, a \in OutcomeAmounts :
          CreateLedgerChannel(cp, d, a) /\ UNCHANGED offClient
    \/ \E id \in ChannelIdArgs : CloseLedgerChannel(id) /\ UNCHANGED offClient
    \/ \E id \in ChannelIdArgs, a \in PayAmounts : Pay(id, a) /\ UNCHANGED offClient
    \/ ReturnResponse /\ UNCHANGED offClient
    \/ EngineTakesObjectiveRequest /\ UNCHANGED offClient
    \/ EngineTakesPaymentRequest /\ UNCHANGED offClient

ApiSpec == Init /\ [][ApiNext]_vars

----------------------------------------------------------------------------
(* Properties of the API calls *)

\* an objective request with a zero address, a zero or negative amount or a
\* zero challenge duration
Malformed(request) ==
    IF request.kind \in {DirectFund, VirtualFund}
    THEN \/ request.CounterParty = NoAddress
         \/ request.ChallengeDuration <= 0
         \/ \E i \in DOMAIN request.Outcome : request.Outcome[i].Amount <= 0
    ELSE request.ChannelId = NoAddress

\* C15: no objective request built from malformed input is ever on the
\* engine's objective-request queue.
C15_MalformedNeverQueued ==
    \A i \in DOMAIN engine.ObjectiveRequestsFromAPI :
        ~Malformed(engine.ObjectiveRequestsFromAPI[i])

ObjectiveMethods ==
    {"CreateVirtualPaymentChannel", "CloseVirtualChannel",
     "CreateLedgerChannel", "CloseLedgerChannel"}

\* the step on which a method sends its request, the step on which it returns
SendsRequest == lastOp'.op \in ObjectiveMethods /\ lastOp'.result = "waiting"
Returns == lastOp'.op \in ObjectiveMethods /\ lastOp'.result = "ok"

\* C22: each of the four objective methods places exactly one objective
\* request on the engine's request queue and returns only after the engine
\* has signalled that the objective started; Pay places exactly one payment
\* request on the payment queue and returns without waiting for the engine.
C22_OneRequestAndWaitForStart ==
    [][ /\ SendsRequest =>
              /\ engine'.ObjectiveRequestsFromAPI =
                    Append(engine.ObjectiveRequestsFromAPI, lastOp'.request)
              /\ engine'.PaymentRequestsFromAPI = engine.PaymentRequestsFromAPI
              /\ client'.call # <<>> /\ ~client'.call[1].started
        /\ Returns =>
              /\ client.call # <<>> /\ client.call[1].started
              /\ client.call[1].request = lastOp'.request
              /\ engine' = engine
              /\ engine.ObjectiveRequestsFromAPI = <<>>
        /\ lastOp'.op = "Pay" =>
              /\ engine'.PaymentRequestsFromAPI =
                    Append(engine.PaymentRequestsFromAPI,
                           [ChannelId |-> lastOp'.id, Amount |-> lastOp'.value])
              /\ engine'.ObjectiveRequestsFromAPI = engine.ObjectiveRequestsFromAPI
              /\ lastOp'.result = "ok"
              /\ client' = client ]_opVars

\* a method has returned after the engine took its request, while the
\* payment request of a Pay that returned earlier is still on its queue
C22_Witness ==
    /\ lastOp.op \in ObjectiveMethods /\ lastOp.result = "ok"
    /\ engine.ObjectiveRequestsFromAPI = <<>>
    /\ client.call = <<>>
    /\ engine.PaymentRequestsFromAPI # <<>>

----------------------------------------------------------------------------
(* client.Client: handleEngineEvents and the notification chans *)

ObjectiveChanCap == 2   \* stands for the 100 of completedObjectives, failedObjectives
VoucherChanCap == 3     \* stands for the 1000 of receivedVouchers
ToApiCap == 2           \* the engine's ToApi chan holds at most this many updates
MaxEmitted == 4         \* the engine emits at most this many items in all

Chans == {"completedObjectives", "failedObjectives", "receivedVouchers"}
Parts == <<"CompletedObjectives", "FailedObjectives", "ReceivedVouchers">>

Cap(chan) ==
    IF chan = "receivedVouchers" THEN VoucherChanCap ELSE ObjectiveChanCap

\* every part of an update going to completedObjectives
TargetChanAlwaysCompleted(part) == "completedObjectives"

\* the chan handleEngineEvents sends the items of a part of an update to
TargetChan(part) ==
    CASE part = "CompletedObjectives" -> "completedObjectives"
      [] part = "FailedObjectives" -> "failedObjectives"
      [] part = "ReceivedVouchers" -> "receivedVouchers"

\* the items emitted are numbered in the order the engine emits them: a
\* completed objective, a failed objective's id or a voucher is its number
Emitted == Len(history.emitted.completedObjectives)
             + Len(history.emitted.failedObjectives)
             + Len(history.emitted.receivedVouchers)

Numbered(from, n) == [i \in 1..n |-> from + i]

\* an EngineEvent with nc completed objectives, nf failed objectives and nv
\* received vouchers
EngineEvent(nc, nf, nv) ==
    [CompletedObjectives |-> Numbered(Emitted, nc),
     FailedObjectives |-> Numbered(Emitted + nc, nf),
     ReceivedVouchers |-> Numbered(Emitted + nc + nf, nv)]

\* the engine sends an update on ToApi
EngineEmits(update) ==
    /\ Len(engine.ToApi) < ToApiCap
    /\ engine' = [engine EXCEPT !.ToApi = Append(@, update)]
    /\ history' = [history EXCEPT
          !.emitted.completedObjectives = @ \o update.CompletedObjectives,
          !.emitted.failedObjectives = @ \o update.FailedObjectives,
          !.emitted.receivedVouchers = @ \o update.ReceivedVouchers]
    /\ lastOp' = [NoOp EXCEPT !.op = "EngineEmits"]
    /\ UNCHANGED <<client, handler>>

\* the part of the update in hand the handler is at: the first one with
\* items left, 0 when none has
PartInHand(update) ==
    IF \A i \in 1..3 : update[Parts[i]] = <<>> THEN 0
    ELSE CHOOSE i \in 1..3 :
            /\ update[Parts[i]] # <<>>
            /\ \A j \in 1..(i - 1) : update[Parts[j]] = <<>>

\* for update := range c.engine.ToApi(): the next update is received once
\* the three loops over the one in hand are through
HandlerReceives ==
    /\ IF handler = <<>> THEN TRUE ELSE PartInHand(handler[1]) = 0
    /\ engine.ToApi # <<>>
    /\ handler' = <<Head(engine.ToApi)>>
    /\ engine' = [engine EXCEPT !.ToApi = Tail(@)]
    /\ lastOp' = [NoOp EXCEPT !.op = "HandlerReceives"]
    /\ UNCHANGED <<client, history>>

\* one send of the three loops: the next item of the update, on its chan;
\* the send waits while the chan is full
HandlerSends ==
    /\ handler # <<>>
    /\ PartInHand(handler[1]) # 0
    /\ LET part == Parts[PartInHand(handler[1])]
           chan == TargetChan(part)
       IN  /\ Len(client[chan]) < Cap(chan)
           /\ client' = [client EXCEPT ![chan] = Append(@, Head(handler[1][part]))]
           /\ handler' = <<[handler[1] EXCEPT ![part] = Tail(@)]>>
           /\ lastOp' = [NoOp EXCEPT !.op = "HandlerSends", !.id = chan]
    /\ UNCHANGED <<engine, history>>

\* the application receives from one of the chans
Receives(chan) ==
    /\ client[chan] # <<>>
    /\ client' = [client EXCEPT ![chan] = Tail(@)]
    /\ history' = [history EXCEPT !.received[chan] = Append(@, Head(client[chan]))]
    /\ lastOp' = [NoOp EXCEPT !.op = "Receives", !.id = chan]
    /\ UNCHANGED <<engine, handler>>

EventNext ==
    \/ \E nc \in 0..2, nf \in 0..1, nv \in 0..1 :
          /\ nc + nf + nv > 0
          /\ Emitted + nc + nf + nv <= MaxEmitted
          /\ EngineEmits(EngineEvent(nc, nf, nv)) /\ UNCHANGED offClient
    \/ HandlerReceives /\ UNCHANGED offClient
    \/ HandlerSends /\ UNCHANGED offClient
    \/ \E chan \in Chans : Receives(chan) /\ UNCHANGED offClient

EventSpec == Init /\ [][EventNext]_vars

----------------------------------------------------------------------------
(* Properties of the notification chans *)

RECURSIVE Queued(_, _)
\* the items of a part in the updates of a queue, in order
Queued(queue, part) ==
    IF queue = <<>> THEN <<>>
    ELSE Head(queue)[part] \o Queued(Tail(queue), part)

\* the items of a part emitted and not yet sent by the handler
Unsent(part) == Queued(handler, part) \o Queued(engine.ToApi, part)

\* C16: every completed objective, failed objective and received voucher the
\* engine emitted is, in the order of emission and once each, either received
\* from its own chan, or held by that chan, or still to be sent on it.
C16_EachDeliveredOnceInOrder ==
    /\ history.received.completedObjectives \o client.completedObjectives
          \o Unsent("CompletedObjectives") = history.emitted.completedObjectives
    /\ history.received.failedObjectives \o client.failedObjectives
          \o Unsent("FailedObjectives") = history.emitted.failedObjectives
    /\ history.received.receivedVouchers \o client.receivedVouchers
          \o Unsent("ReceivedVouchers") = history.emitted.receivedVouchers

\* items of every kind, emitted in more than one update, have all been received
C16_Witness ==
    /\ Len(history.received.completedObjectives) >= 2
    /\ Len(history.received.failedObjectives) >= 1
    /\ Len(history.received.receivedVouchers) >= 1
    /\ history.received = history.emitted
    /\ history.received.completedObjectives[2] # history.received.completedObjectives[1] + 1

\* handleEngineEvents is at a send on the chan and the chan is full: it goes
\* on only once the consumer of that chan has received
WaitsOn(chan) ==
    /\ handler # <<>>
    /\ PartInHand(handler[1]) # 0
    /\ TargetChan(Parts[PartInHand(handler[1])]) = chan
    /\ Len(client[chan]) = Cap(chan)

\* C27: a consumer that stops reading one of the three notification chans
\* does not stop the other two streams nor the draining of the engine's
\* output: while the handler waits on a full chan, no item of another stream
\* and no update on ToApi waits behind it for that chan's consumer.
C27_OtherStreamsNotHeldUp ==
    \A chan \in Chans :
        WaitsOn(chan) =>
            /\ \A i \in 1..3 :
                  TargetChan(Parts[i]) # chan => Unsent(Parts[i]) = <<>>
            /\ engine.ToApi = <<>>

----------------------------------------------------------------------------
(* The guarantee metadata of a ledger request, encoded and decoded *)

\* the ledger requests of every pair of destinations
GuaranteeRequests ==
    [LedgerId : {<<ThePair, 0>>}, Destination : {"V1"}, Amount : RequestAmounts,
     Left : {Destinations[i] : i \in DOMAIN Destinations},
     Right : {Destinations[i] : i \in DOMAIN Destinations},
     Kind : {"Add"}]

\* HandleRequest encodes the guarantee of the request
EncodeGuarantee(request) ==
    /\ lastOp' = [NoOp EXCEPT !.op = "Encode", !.request = request,
                              !.obj = GuaranteeFor(request), !.built = TRUE]

\* a reader of the outcome decodes the metadata of the guarantee
DecodeGuarantee ==
    /\ lastOp.op = "Encode"
    /\ lastOp' = [lastOp EXCEPT !.op = "Decode",
                                !.ss = Decode(lastOp.obj.Metadata)]

CodecNext ==
    \/ \E request \in GuaranteeRequests :
          EncodeGuarantee(request) /\ UNCHANGED offCodec
    \/ DecodeGuarantee /\ UNCHANGED offCodec

CodecSpec == Init /\ [][CodecNext]_vars

----------------------------------------------------------------------------
(* The defund objectives, as the payment-channel query sees them *)

DefundChannel(kind) == IF kind = VirtualDefund THEN "V1" ELSE "L1"
DefundId(kind) == ObjectiveId(PrefixOf(kind), DefundChannel(kind))
DefundIds == {DefundId(DirectDefund), DefundId(VirtualDefund)}
Terminal == {Rejected, Completed}

\* the final allocation of a defund objective: for a payment channel the
\* payer keeps what remains and the payee receives what was paid (all of it
\* the payer's when no voucher was received); for a ledger channel the
\* allocation of its last supported state
FinalAllocation(kind, recorded) ==
    LET id == DefundChannel(kind) IN
    IF kind = VirtualDefund
    THEN <<Allocation("A", Balance(recorded, id).Remaining),
           Allocation("B", Balance(recorded, id).Paid)>>
    ELSE InitialOutcome(id)

\* a defund objective: InitialOutcome is the outcome of the last supported
\* state that is not final, FinalOutcome the final outcome it works towards,
\* Signed the participants whose signature of the final state it holds
NewDefundObjective(kind, status, recorded) ==
    [kind |-> kind, Status |-> status,
     VFixed |-> [Participants |-> <<"A", "B">>],
     InitialOutcome |-> InitialOutcome(DefundChannel(kind)),
     FinalOutcome |-> FinalAllocation(kind, recorded),
     Signed |-> {}]

Conserves(obj, final) == SumAmounts(final) = SumAmounts(obj.InitialOutcome)

\* Objective.Update with a final state proposing the allocation final,
\* signed by signer: a terminal objective never changes; an allocation that
\* does not conserve the total rejects the objective; a signature of the
\* objective's own final outcome is kept; any other state is discarded
UpdateDefund(obj, final, signer) ==
    IF obj.Status \in Terminal THEN obj
    ELSE IF ~Conserves(obj, final) THEN [obj EXCEPT !.Status = Rejected]
    ELSE IF final = obj.FinalOutcome THEN [obj EXCEPT !.Signed = @ \cup {signer}]
    ELSE obj

\* Objective.Crank: an approved objective signs its final state, and is
\* completed once every participant has signed it
CrankDefund(obj) ==
    IF obj.Status # Approved THEN obj
    ELSE LET signed == obj.Signed \cup {Me} IN
         [obj EXCEPT !.Signed = signed,
                     !.Status = IF signed = {"A", "B"} THEN Completed ELSE @]

DefundOp(op, id, obj) == [NoOp EXCEPT !.op = op, !.id = id, !.obj = obj]

\* the engine stores a new defund objective
CreateDefund(kind, status) ==
    /\ DefundId(kind) \notin DOMAIN objectives
    /\ objectives' = Put(objectives, DefundId(kind),
                         NewDefundObjective(kind, status, largest))
    /\ lastOp' = DefundOp("CreateDefund", DefundId(kind), objectives'[DefundId(kind)])
    /\ UNCHANGED <<channels, consensusChannels, voucherVars>>

\* Approve and Reject of an objective not yet approved
ApproveDefund(id, status) ==
    /\ id \in DOMAIN objectives
    /\ objectives[id].Status = Unapproved
    /\ objectives' = [objectives EXCEPT ![id].Status = status]
    /\ lastOp' = DefundOp("ApproveDefund", id, objectives'[id])
    /\ UNCHANGED <<channels, consensusChannels, voucherVars>>

\* the engine updates a stored objective with a peer's final state
DefundUpdate(id, final, signer) ==
    /\ id \in DOMAIN objectives
    /\ objectives' = [objectives EXCEPT ![id] = UpdateDefund(@, final, signer)]
    /\ lastOp' = [DefundOp("DefundUpdate", id, objectives'[id]) EXCEPT
                     !.request = final]
    /\ UNCHANGED <<channels, consensusChannels, voucherVars>>

\* the engine cranks a stored objective
DefundCrank(id) ==
    /\ id \in DOMAIN objectives
    /\ objectives' = [objectives EXCEPT ![id] = CrankDefund(@)]
    /\ lastOp' = DefundOp("DefundCrank", id, objectives'[id])
    /\ UNCHANGED <<channels, consensusChannels, voucherVars>>

\* the allocations a peer's final state proposes: the objective's own, one
\* that moves 5 to the payee, one that adds 5, one that drops 5
ProposedFinals(obj) ==
    LET f == obj.FinalOutcome IN
    {f,
     <<[f[1] EXCEPT !.Amount = @ - 5], [f[2] EXCEPT !.Amount = @ + 5]>>,
     <<f[1], [f[2] EXCEPT !.Amount = @ + 5]>>,
     <<[f[1] EXCEPT !.Amount = @ - 5], f[2]>>}

DefundNext ==
    \/ \E kind \in {DirectDefund, VirtualDefund}, status \in {Unapproved, Approved} :
          CreateDefund(kind, status) /\ UNCHANGED offQuery
    \/ \E id \in DefundIds, status \in {Approved, Rejected} :
          ApproveDefund(id, status) /\ UNCHANGED offQuery
    \/ \E id \in DOMAIN objectives :
          \E final \in ProposedFinals(objectives[id]) :
             DefundUpdate(id, final, "A") /\ UNCHANGED offQuery
    \/ \E id \in DefundIds : DefundCrank(id) /\ UNCHANGED offQuery
    \/ \E v \in QueryVouchers :
          ReceiveVoucher(v) /\ UNCHANGED <<storeVars, offQuery>>
    \/ \E id \in PaymentChannels : GetPaymentChannel(id) /\ UNCHANGED offQuery

DefundSpec == Init /\ [][DefundNext]_vars

----------------------------------------------------------------------------
(* Properties of the defund objectives *)

\* the update just made proposed an allocation that does not conserve the
\* total, to an objective that was not terminal
RefusedUpdate ==
    /\ lastOp'.op = "DefundUpdate"
    /\ objectives[lastOp'.id].Status \notin Terminal
    /\ ~Conserves(objectives[lastOp'.id], lastOp'.request)

----------------------------------------------------------------------------
(* The payment channel's balance, from the channel and from its objective *)

\* what a payment channel's states after the post-fund state may shift
BalanceMoves == {0, 5}

BalanceNext ==
    \/ \E id \in PaymentChannels : CreateChannel(id) /\ UNCHANGED offQuery
    \/ \E id \in DOMAIN channels, t \in QueryTurns, final \in BOOLEAN :
          \E ks \in QueryKeyLists(id), moved \in BalanceMoves :
             /\ final => t > PostFundTurnNum
             /\ moved > 0 => t > PostFundTurnNum /\ t \notin Turns(channels[id])
             /\ SignStoredState(id, t, final, ks, moved) /\ UNCHANGED offQuery
    \/ \E v \in QueryVouchers :
          ReceiveVoucher(v) /\ UNCHANGED <<storeVars, offQuery>>
    \/ \E status \in {Unapproved, Approved} :
          CreateDefund(VirtualDefund, status) /\ UNCHANGED offQuery
    \/ \E status \in {Approved, Rejected} :
          ApproveDefund(DefundId(VirtualDefund), status) /\ UNCHANGED offQuery
    \/ \E id \in DOMAIN objectives :
          \E final \in ProposedFinals(objectives[id]) :
             DefundUpdate(id, final, "A") /\ UNCHANGED offQuery
    \/ DefundCrank(DefundId(VirtualDefund)) /\ UNCHANGED offQuery
    \/ \E id \in PaymentChannels : GetPaymentChannel(id) /\ UNCHANGED offQuery

BalanceSpec == Init /\ [][BalanceNext]_vars

\* the total of the allocations of the payment channel's outcome
ChannelTotal(id) ==
    IF id \in DOMAIN channels
    THEN SumAmounts(getLatestSupported(channels[id]).Outcome)
    ELSE SumAmounts(InitialOutcome(id))

\* C33: for every payment channel and every status, the PaidSoFar and the
\* RemainingFunds getPaymentChannelInfo answers sum to the total of the
\* allocations of the channel's outcome, also when they are the voucher
\* manager's paid and remaining amounts of a Ready channel with vouchers.
C33_PaidAndRemainingSumToTotal ==
    [][lastOp'.op = "GetPaymentChannel" /\ ~lastOp'.err =>
          /\ lastOp'.paid + lastOp'.remaining = ChannelTotal(lastOp'.id)
          /\ lastOp'.paid + lastOp'.remaining
                = SumAmounts(InitialOutcome(lastOp'.id))]_opVars

\* a Ready channel whose latest state has shifted 5 to the payee, and for
\* which a voucher of 25 is recorded, has been queried
C33_Witness ==
    /\ lastOp.op = "GetPaymentChannel" /\ ~lastOp.err
    /\ lastOp.via = "channel"
    /\ lastOp.status = Ready
    /\ largest[lastOp.id] = 25
    /\ lastOp.paid = 25 /\ lastOp.remaining = 15
    /\ LatestSupportedTurn(channels[lastOp.id]) = 2

----------------------------------------------------------------------------
(* reverseproxy.ReversePaymentProxy *)

AMOUNT_VOUCHER_PARAM == "amount"
CHANNEL_ID_VOUCHER_PARAM == "channelId"
SIGNATURE_VOUCHER_PARAM == "signature"
VoucherParams ==
    {CHANNEL_ID_VOUCHER_PARAM, AMOUNT_VOUCHER_PARAM, SIGNATURE_VOUCHER_PARAM}

StatusBadRequest == 400
StatusPaymentRequired == 402
StatusOK == 200

\* NewReversePaymentProxy's expectedPaymentAmount
ExpectedPaymentAmount == 10

\* the decimal texts of the amounts; "abc" is no number
DecimalTexts == {"10", "15", "20", "40", "abc"}
SetString(text) ==
    CASE text = "10" -> [ok |-> TRUE, n |-> 10]
      [] text = "15" -> [ok |-> TRUE, n |-> 15]
      [] text = "20" -> [ok |-> TRUE, n |-> 20]
      [] text = "40" -> [ok |-> TRUE, n |-> 40]
      [] OTHER -> [ok |-> FALSE, n |-> 0]

\* the text of a signature parameter: the hex text of key's signature of a
\* voucher of amount n for channel V1, or a text that is not hex
SignatureTexts ==
    [hex : {TRUE}, key : {"A", "X"}, n : {10, 15, 20, 40}]
        \cup {[hex |-> FALSE, key |-> "X", n |-> 0]}

\* the address a signature recovers to for a voucher of an amount
RecoversTo(sig, amount) == IF sig.n = amount THEN sig.key ELSE "X"

\* the queries of the requests: the parameters present and their texts
FullQueries ==
    {[name \in VoucherParams \cup {"file"} |->
         CASE name = CHANNEL_ID_VOUCHER_PARAM -> "V1"
           [] name = AMOUNT_VOUCHER_PARAM -> text
           [] name = SIGNATURE_VOUCHER_PARAM -> sig
           [] OTHER -> "f"] : text \in DecimalTexts, sig \in SignatureTexts}
Queries ==
    {[name \in present \cup {"file"} |-> q[name]] :
        q \in FullQueries, present \in SUBSET VoucherParams}

\* a request: its query, and whether url.ParseQuery rejects its raw query
Requests ==
    [query : Queries, malformed : BOOLEAN]

\* what amount holds after a SetString that failed
UndefinedAmounts == {0, 10}

\* parseVoucher: [err, panic, v].  The result of SetString is not looked at;
\* hexutil.MustDecode panics on a text that is not hex
parseVoucher(params, undefined) ==
    IF \/ CHANNEL_ID_VOUCHER_PARAM \notin DOMAIN params
       \/ AMOUNT_VOUCHER_PARAM \notin DOMAIN params
       \/ SIGNATURE_VOUCHER_PARAM \notin DOMAIN params
    THEN [err |-> TRUE, panic |-> FALSE, v |-> None]
    ELSE LET rawAmt == SetString(params[AMOUNT_VOUCHER_PARAM])
             amount == IF rawAmt.ok THEN rawAmt.n ELSE undefined
             rawSignature == params[SIGNATURE_VOUCHER_PARAM]
         IN  IF ~rawSignature.hex
             THEN [err |-> FALSE, panic |-> TRUE, v |-> None]
             ELSE [err |-> FALSE, panic |-> FALSE,
                   v |-> [ChannelId |-> params[CHANNEL_ID_VOUCHER_PARAM],
                          Amount |-> amount,
                          Signer |-> RecoversTo(rawSignature, amount)]]

\* removeVoucherParams
removeVoucherParams(params) ==
    [name \in DOMAIN params \ VoucherParams |-> params[name]]

\* RpcClient.ReceiveVoucher: the node's answer, its delta in s.Delta
ClientReceiveVoucher(recorded, v) ==
    LET res == NodeReceiveVoucher(recorded, v)
        out == ReceiveVoucherHandler(v, res)
    IN  [err |-> out.err, Delta |-> out.value, largest |-> res.largest]

\* no payment is too small
PaymentTooSmallNever(delta) == FALSE

\* s.Delta.Cmp(p.expectedPaymentAmount) < 0
PaymentTooSmall(delta) == delta < ExpectedPaymentAmount

\* the answer of ServeHTTP to a request: the status written, the request
\* forwarded if one is, the amounts recorded afterwards.  A panic of the
\* handler writes no status
Answer(status, forwarded, recorded, v, result) ==
    [status |-> status, forwarded |-> forwarded, largest |-> recorded,
     v |-> v, result |-> result]

Serve(recorded, r, undefined) ==
    IF r.malformed
    THEN Answer(StatusBadRequest, <<>>, recorded, None, "error")
    ELSE LET parsed == parseVoucher(r.query, undefined)
         IN  IF parsed.err
             THEN Answer(StatusPaymentRequired, <<>>, recorded, None, "error")
             ELSE IF parsed.panic
             THEN Answer(0, <<>>, recorded, None, "panic")
             ELSE LET s == ClientReceiveVoucher(recorded, parsed.v)
                  IN  IF s.err
                      THEN Answer(StatusPaymentRequired, <<>>, s.largest,
                                  parsed.v, "error")
                      ELSE IF PaymentTooSmall(s.Delta)
                      THEN Answer(StatusPaymentRequired, <<>>, s.largest,
                                  parsed.v, "error")
                      ELSE Answer(StatusOK, <<removeVoucherParams(r.query)>>,
                                  s.largest, parsed.v, "forwarded")

\* ReversePaymentProxy.ServeHTTP
ServeHTTP(r, undefined) ==
    LET a == Serve(largest, r, undefined)
    IN  /\ largest' = a.largest
        /\ destination' = destination \o a.forwarded
        /\ lastOp' = [NoOp EXCEPT !.op = "ServeHTTP", !.request = r,
                                  !.voucher = a.v, !.value = a.status,
                                  !.result = a.result,
                                  !.added = a.forwarded # <<>>]

ProxyNext ==
    \E r \in Requests, undefined \in UndefinedAmounts :
        ServeHTTP(r, undefined) /\ UNCHANGED offProxy

ProxySpec == Init /\ [][ProxyNext]_vars

----------------------------------------------------------------------------
(* Properties of the proxy *)

\* the voucher parameters of a request parse: the three of them are there,
\* the amount is a decimal number and the signature is hex
Parses(r) ==
    /\ ~r.malformed
    /\ VoucherParams \subseteq DOMAIN r.query
    /\ SetString(r.query[AMOUNT_VOUCHER_PARAM]).ok
    /\ r.query[SIGNATURE_VOUCHER_PARAM].hex

\* the voucher the parameters of a request that parses spell
VoucherOf(r) ==
    LET amount == SetString(r.query[AMOUNT_VOUCHER_PARAM]).n
    IN  [ChannelId |-> r.query[CHANNEL_ID_VOUCHER_PARAM], Amount |-> amount,
         Signer |-> RecoversTo(r.query[SIGNATURE_VOUCHER_PARAM], amount)]

\* ReceiveVoucher on the voucher succeeds with a delta of at least the price
PaidFor(recorded, r) ==
    /\ Parses(r)
    /\ VoucherOf(r).Signer = Payer(VoucherOf(r).ChannelId)
    /\ VoucherOf(r).Amount > recorded[VoucherOf(r).ChannelId]
    /\ VoucherOf(r).Amount - recorded[VoucherOf(r).ChannelId]
          >= ExpectedPaymentAmount

\* C20: ServeHTTP forwards a request if and only if its voucher parameters
\* parse, ReceiveVoucher on the voucher succeeds and the delta is at least
\* expectedPaymentAmount; in every other case it answers with an error status
\* and forwards nothing; a forwarded request carries none of the channelId,
\* amount and signature parameters.
C20_ForwardsIffPaidElseErrorStatus ==
    [][lastOp'.op = "ServeHTTP" =>
          LET r == lastOp'.request
              forwarded == destination' # destination
          IN  /\ forwarded <=> PaidFor(largest, r)
              /\ ~forwarded =>
                    /\ destination' = destination
                    /\ lastOp'.value \in {StatusBadRequest,
                                          StatusPaymentRequired}
              /\ forwarded =>
                    /\ Len(destination') = Len(destination) + 1
                    /\ DOMAIN destination'[Len(destination')]
                          \cap VoucherParams = {}]_vars

\* C30: over any sequence of requests for one channel, the number of requests
\* forwarded to the destination times expectedPaymentAmount never exceeds the
\* amount the payee has recorded for the channel; a request forwarded carries
\* a voucher above the amount recorded before it, so the same voucher
\* presented again gets no second request forwarded.
C30_ForwardedNeverExceedsRecorded ==
    [][/\ \A c \in VirtualChannels :
             c # "V1" => largest'[c] = 0
       /\ Len(destination') * ExpectedPaymentAmount <= largest'["V1"]
       /\ lastOp'.op = "ServeHTTP" /\ lastOp'.result = "forwarded" =>
             lastOp'.voucher.Amount
                > largest[lastOp'.voucher.ChannelId]]_opVars

\* the voucher of the request before, recorded and forwarded for, is
\* presented again and refused
C30_Witness ==
    /\ Len(destination) >= 2
    /\ lastOp.op = "ServeHTTP"
    /\ lastOp.result = "error"
    /\ lastOp.value = StatusPaymentRequired
    /\ Parses(lastOp.request)
    /\ VoucherOf(lastOp.request).Signer = Payer("V1")
    /\ VoucherOf(lastOp.request).Amount = largest["V1"]
    /\ Len(destination) * ExpectedPaymentAmount = largest["V1"]

----------------------------------------------------------------------------
(* rpc.RpcServer: the request handler *)

\* a JSON value: a number (counted in halves, so that 3 is 1.5), a string,
\* or no value at all
Num(h) == [t |-> "number", halves |-> h, s |-> ""]
Str(s) == [t |-> "string", halves |-> 0, s |-> s]
Absent == [t |-> "absent", halves |-> 0, s |-> ""]

\* every integer up to Mantissa is a float64; above it only the even ones
\* are (it stands for 2^53)
Mantissa == 8

\* the float64 json.Unmarshal holds for a number, in halves: the number
\* itself when a float64 can hold it, else the nearest one that can, the
\* one with the even mantissa on a tie
Float64(h) ==
    IF h <= 2 * Mantissa THEN h
    ELSE LET n == h \div 2
             below == 2 * (n \div 2)
         IN  IF n = below /\ h % 2 = 0 THEN h
             ELSE IF (below \div 2) % 2 = 0 /\ h - 2 * below <= 2
                  THEN 2 * below
                  ELSE 2 * (below + 2)

\* uint64(f) of a float64 that is not negative: the fraction is dropped
Truncate(h) == h \div 2

RegisteredMethods == {"receive_voucher", "pay", "version"}

\* types.JsonRpcError, as marshalled: its name, and the id it carries
JsonRpcError(name, hasId, id) == [error |-> name, hasId |-> hasId, id |-> id]
NoError == "none"

\* validateJsonrpcRequest: [Error, Method, Id], Error = <<>> when there is none
validateJsonrpcRequest(requestData) ==
    IF ~requestData.object
    THEN [Error |-> <<JsonRpcError("UnexpectedRequestUnmarshalError", FALSE, 0)>>,
          Method |-> "", Id |-> 0]
    ELSE
    LET requestId == requestData.id
        fRequestId == Float64(requestId.halves)
    IN
    IF requestId.t # "number"
    THEN [Error |-> <<JsonRpcError("InvalidRequestError", FALSE, 0)>>,
          Method |-> "", Id |-> 0]
    \* a negative float converts to some uint64, and no uint64 converts
    \* back to a negative float
    ELSE IF fRequestId < 0 \/ fRequestId # 2 * Truncate(fRequestId)
    THEN [Error |-> <<JsonRpcError("InvalidRequestError", FALSE, 0)>>,
          Method |-> "", Id |-> 0]
    ELSE
    LET vrId == Truncate(fRequestId) IN
    IF requestData.jsonrpc.t # "string" \/ requestData.jsonrpc.s # "2.0"
    THEN [Error |-> <<JsonRpcError("InvalidRequestError", TRUE, vrId)>>,
          Method |-> "", Id |-> vrId]
    ELSE IF requestData.method.t # "string"
    THEN [Error |-> <<JsonRpcError("InvalidRequestError", TRUE, vrId)>>,
          Method |-> "", Id |-> vrId]
    ELSE [Error |-> <<>>, Method |-> requestData.method.s, Id |-> vrId]

\* the node operation of a registered method on the payload:
\* [invoked, err, largest]
ProcessPayload(method, payload, recorded) ==
    CASE method = "receive_voucher" ->
            IF payload.ChannelId \notin DOMAIN recorded
            THEN [invoked |-> TRUE, err |-> TRUE, largest |-> recorded]
            ELSE LET res == NodeReceiveVoucher(recorded, payload)
                     out == ReceiveVoucherHandler(payload, res)
                 IN  [invoked |-> TRUE, err |-> out.err, largest |-> res.largest]
      [] method = "pay" ->
            \* serde.ValidatePaymentRequest, then node.Pay
            IF payload.ChannelId = NoAddress
            THEN [invoked |-> FALSE, err |-> TRUE, largest |-> recorded]
            ELSE [invoked |-> TRUE, err |-> FALSE, largest |-> recorded]
      [] OTHER -> [invoked |-> TRUE, err |-> FALSE, largest |-> recorded]

\* processRequest: [response, invoked, err, largest].  The request is
\* unmarshalled again, its id as a uint64 this time
processRequest(requestData, method, recorded) ==
    IF ~requestData.params.typed
    THEN [response |-> JsonRpcError("UnexpectedRequestUnmarshalError2", FALSE, 0),
          invoked |-> FALSE, err |-> FALSE, largest |-> recorded]
    ELSE LET id == requestData.id.halves \div 2
             done == ProcessPayload(method, requestData.params, recorded)
         IN  [response |-> IF done.err
                           THEN JsonRpcError("InternalServerError", TRUE, id)
                           ELSE JsonRpcError(NoError, TRUE, id),
              invoked |-> done.invoked, err |-> done.err,
              largest |-> done.largest]

\* handlerV1: [response, invoked, err, largest]
handlerV1(requestData, recorded) ==
    IF ~requestData.valid
    THEN [response |-> JsonRpcError("ParseError", FALSE, 0),
          invoked |-> FALSE, err |-> FALSE, largest |-> recorded]
    ELSE
    LET jsonrpcReq == validateJsonrpcRequest(requestData) IN
    IF jsonrpcReq.Error # <<>>
    THEN [response |-> jsonrpcReq.Error[1],
          invoked |-> FALSE, err |-> FALSE, largest |-> recorded]
    ELSE IF jsonrpcReq.Method \in RegisteredMethods
    THEN processRequest(requestData, jsonrpcReq.Method, recorded)
    ELSE [response |-> JsonRpcError("MethodNotFoundError", TRUE, jsonrpcReq.Id),
          invoked |-> FALSE, err |-> FALSE, largest |-> recorded]

\* the transport hands a request to the handler and sends what it returns
ServeRequest(requestData) ==
    LET out == handlerV1(requestData, largest) IN
    /\ largest' = out.largest
    /\ lastOp' = [NoOp EXCEPT !.op = "handlerV1", !.request = requestData,
                              !.responses = <<out.response>>,
                              !.added = out.invoked, !.err = out.err]

\* the requests: data that is no JSON, JSON that is no object, and objects
\* with every mix of id, jsonrpc, method and params
RequestIds == {Absent, Str("7"), Num(-2), Num(0), Num(3), Num(14), Num(18)}
Payloads ==
    [typed : BOOLEAN, ChannelId : {"V1", NoAddress}, Amount : {10, 20},
     Signer : {"A", "X"}]
NoPayload ==
    [typed |-> FALSE, ChannelId |-> NoAddress, Amount |-> 10, Signer |-> "X"]
Envelopes ==
    [valid : {TRUE}, object : {TRUE}, id : RequestIds,
     jsonrpc : {Absent, Str("2.0"), Str("1.0"), Num(4)},
     method : {Absent, Num(2), Str("no_such_method")}
                 \cup {Str(m) : m \in RegisteredMethods},
     params : {NoPayload}]
RequestObjects ==
    Envelopes \cup
    {[e EXCEPT !.params = payload] :
        e \in {x \in Envelopes : /\ x.jsonrpc = Str("2.0")
                                 /\ x.method.s \in RegisteredMethods},
        payload \in Payloads}
NoObject(valid) ==
    [valid |-> valid, object |-> FALSE, id |-> Absent, jsonrpc |-> Absent,
     method |-> Absent, params |-> NoPayload]
RequestDatas == RequestObjects \cup {NoObject(TRUE), NoObject(FALSE)}

RpcNext ==
    \E requestData \in RequestDatas :
        ServeRequest(requestData) /\ UNCHANGED offProxy /\ UNCHANGED destination

RpcSpec == Init /\ [][RpcNext]_vars

----------------------------------------------------------------------------
(* Properties of the request handler *)

Handled == lastOp'.op = "handlerV1"
TheRequest == lastOp'.request
TheResponse == lastOp'.responses[1]

\* the id of the request is a number that is a non-negative integer
IdIsNatural(d) ==
    d.id.t = "number" /\ d.id.halves >= 0 /\ d.id.halves % 2 = 0
RequestId(d) == d.id.halves \div 2
Carries(response, d) == response.hasId /\ response.id = RequestId(d)

\* C25: the handler returns exactly one response per request and invokes no
\* node operation for an invalid request: data that is not valid JSON yields
\* ParseError; an id that is not a non-negative integer yields
\* InvalidRequestError; a jsonrpc field other than "2.0" or a method that is
\* no string yields InvalidRequestError carrying the request id; a method not
\* registered yields MethodNotFoundError carrying the request id; an error of
\* the node operation yields an error response carrying the request id.
C25_OneResponseAndErrorsByKind ==
    [][ Handled =>
          LET d == TheRequest IN
          /\ Len(lastOp'.responses) = 1
          /\ IF ~d.valid
             THEN /\ TheResponse.error = "ParseError"
                  /\ ~lastOp'.added /\ largest' = largest
             ELSE IF ~IdIsNatural(d)
             THEN /\ TheResponse.error = "InvalidRequestError"
                  /\ ~lastOp'.added /\ largest' = largest
             ELSE IF d.jsonrpc # Str("2.0") \/ d.method.t # "string"
             THEN /\ TheResponse.error = "InvalidRequestError"
                  /\ Carries(TheResponse, d)
                  /\ ~lastOp'.added /\ largest' = largest
             ELSE IF d.method.s \notin RegisteredMethods
             THEN /\ TheResponse.error = "MethodNotFoundError"
                  /\ Carries(TheResponse, d)
                  /\ ~lastOp'.added /\ largest' = largest
             ELSE lastOp'.err =>
                     /\ TheResponse.error # NoError
                     /\ Carries(TheResponse, d) ]_opVars

-----------------------------------------------------------------------------
(* network.Request: the goroutine that answers on returnChan *)

\* returnChan := make(chan Response, 1)
ReturnChanCap == 1

\* the request types the switch of Request knows
KnownRequests ==
    {"directfund.ObjectiveRequest", "directdefund.ObjectiveRequest",
     "virtualfund.ObjectiveRequest", "virtualdefund.ObjectiveRequest",
     "serde.PaymentRequest"}

RequestTypes == KnownRequests \cup {"other"}

\* the payload type the goroutine's switch unmarshals the reply into
ResponsePayload(request) ==
    CASE request = "directfund.ObjectiveRequest" ->
            "directfund.ObjectiveResponse"
      [] request \in {"directdefund.ObjectiveRequest",
                      "virtualdefund.ObjectiveRequest"} ->
            "protocols.ObjectiveId"
      [] request = "virtualfund.ObjectiveRequest" ->
            "virtualfund.ObjectiveResponse"
      [] request = "serde.PaymentRequest" -> "serde.PaymentRequest"

Response(data, err) == [Data |-> data, Error |-> err]

\* the replies a connection hands back without an error
ResponseDatas == {"malformed", "well-formed"}

\* json.Unmarshal(data, &response): fails on nil and on malformed data
UnmarshalFails(data) == data # "well-formed"

\* returnChan <- response: waits while the chan is full
Send(response, then) ==
    /\ Len(net.returnChan) < ReturnChanCap
    /\ net' = [net EXCEPT !.returnChan = Append(@, response),
                          !.sent = Append(@, response),
                          !.pc = then]

\* the part of Request the caller runs: the switch on the request type, the
\* chan, and the goroutine started
Request(request) ==
    /\ net.pc \in {"none", "returned"}
    /\ net' = IF request \in KnownRequests
                THEN [NoCall EXCEPT !.request = request,
                                    !.pc = "connection.Request"]
                ELSE [NoCall EXCEPT !.request = request,
                                    !.err = "unknown request type"]

\* responseData, err := connection.Request(topic, data)
ConnectionRequest(failed, data) ==
    /\ net.pc = "connection.Request"
    /\ net' = IF failed
                THEN [net EXCEPT !.pc = "returnChan <- Response{nil, err}",
                                 !.responseData = "nil",
                                 !.err = "connection"]
                ELSE [net EXCEPT !.pc = "unmarshalAndSend",
                                 !.responseData = data]

\* if err != nil { returnChan <- Response{nil, err} }: no return follows
SendConnectionError ==
    /\ net.pc = "returnChan <- Response{nil, err}"
    /\ Send(Response("nil", "connection"), "sent")

\* the goroutine goes on to the switch and unmarshalAndSend
AfterConnectionError ==
    /\ net.pc = "sent"
    /\ net' = [net EXCEPT !.pc = "unmarshalAndSend"]

\* unmarshalAndSend: err := json.Unmarshal(data, &response)
Unmarshal ==
    /\ net.pc = "unmarshalAndSend"
    /\ net' = IF UnmarshalFails(net.responseData)
                THEN [net EXCEPT !.pc = "resChan <- Response{nil, err}"]
                ELSE [net EXCEPT !.pc = "resChan <- Response{response, nil}"]

\* if err != nil { resChan <- Response{nil, err} }: no return follows
SendUnmarshalError ==
    /\ net.pc = "resChan <- Response{nil, err}"
    /\ Send(Response("nil", "unmarshal"), "sent error")

AfterUnmarshalError ==
    /\ net.pc = "sent error"
    /\ net' = [net EXCEPT !.pc = "resChan <- Response{response, nil}"]

\* resChan <- Response{response, nil}, and the goroutine ends
SendResponse ==
    /\ net.pc = "resChan <- Response{response, nil}"
    /\ Send(Response(ResponsePayload(net.request), "nil"), "sent response")

GoroutineEnds ==
    /\ net.pc = "sent response"
    /\ net' = [net EXCEPT !.pc = "returned"]

\* the caller reads the returned chan
CallerReceives ==
    /\ net.returnChan # <<>>
    /\ net' = [net EXCEPT !.returnChan = Tail(@),
                          !.received = Append(@, Head(net.returnChan))]

offRpc ==
    <<ledgerVars, lastOp, voucherVars, storeVars, mockVars, clientVars,
      proxyVars>>

NetNext ==
    \/ \E request \in RequestTypes :
          Request(request) /\ UNCHANGED <<offRpc, server, ws>>
    \/ \E failed \in BOOLEAN, data \in ResponseDatas :
          ConnectionRequest(failed, data) /\ UNCHANGED <<offRpc, server, ws>>
    \/ SendConnectionError /\ UNCHANGED <<offRpc, server, ws>>
    \/ AfterConnectionError /\ UNCHANGED <<offRpc, server, ws>>
    \/ Unmarshal /\ UNCHANGED <<offRpc, server, ws>>
    \/ SendUnmarshalError /\ UNCHANGED <<offRpc, server, ws>>
    \/ AfterUnmarshalError /\ UNCHANGED <<offRpc, server, ws>>
    \/ SendResponse /\ UNCHANGED <<offRpc, server, ws>>
    \/ GoroutineEnds /\ UNCHANGED <<offRpc, server, ws>>
    \/ CallerReceives /\ UNCHANGED <<offRpc, server, ws>>

NetSpec == Init /\ [][NetNext]_vars

-----------------------------------------------------------------------------
(* Properties of network.Request *)

\* the goroutine is at a send and the chan is full
Blocked ==
    /\ net.pc \in {"returnChan <- Response{nil, err}",
                   "resChan <- Response{nil, err}",
                   "resChan <- Response{response, nil}"}
    /\ Len(net.returnChan) = ReturnChanCap

\* the one Response the call is to be answered with
Expected ==
    IF net.err = "connection" THEN Response("nil", "connection")
    ELSE IF UnmarshalFails(net.responseData) THEN Response("nil", "unmarshal")
    ELSE Response(ResponsePayload(net.request), "nil")

\* C26: a call of network.Request with a known request type gets exactly one
\* Response sent on the returned chan, an error Response when the connection
\* request fails or the reply cannot be unmarshalled and a data Response
\* otherwise, and the goroutine ends without blocking on a send.
C26_ExactlyOneResponse ==
    net.request \in KnownRequests =>
        /\ Len(net.sent) <= 1
        /\ ~Blocked
        /\ net.pc = "returned" => net.sent = <<Expected>>

-----------------------------------------------------------------------------
(* rpc.RpcServer: Close and the goroutine of sendNotifications *)

MaxQueued == 1      \* a node chan holds at most this many notifications
MaxNotified == 2    \* the server sends at most this many notifications

\* the node sends a notification on one of its chans
NodeSends(chan) ==
    /\ server.sendNotifications # "panicked"
    /\ chan \notin server.closed
    /\ server.queued[chan] < MaxQueued
    /\ server' = [server EXCEPT !.queued[chan] = @ + 1]

\* the node closes one of its chans
NodeCloses(chan) ==
    /\ server.sendNotifications # "panicked"
    /\ chan \notin server.closed
    /\ server' = [server EXCEPT !.closed = @ \cup {chan}]

\* case <-ctx.Done(): rs.wg.Done(), return
SelectDone ==
    /\ server.sendNotifications = "select"
    /\ server.cancelled
    /\ server' = [server EXCEPT !.wg = @ - 1, !.sendNotifications = "returned"]

\* case x, ok := <-chan with ok: sendNotification, and panic(err) on an error
SelectReceives(chan, failed) ==
    /\ server.sendNotifications = "select"
    /\ server.queued[chan] > 0
    /\ failed \/ server.notified < MaxNotified
    /\ server' = IF failed
                   THEN [server EXCEPT !.queued[chan] = @ - 1,
                                       !.sendNotifications = "panicked"]
                   ELSE [server EXCEPT !.queued[chan] = @ - 1,
                                       !.notified = @ + 1]

\* case x, ok := <-chan with !ok, the chan closed and empty: return
SelectClosed(chan) ==
    /\ server.sendNotifications = "select"
    /\ chan \in server.closed
    /\ server.queued[chan] = 0
    /\ server' = [server EXCEPT !.sendNotifications = "returned"]

\* Close: rs.cancel()
RpcServerClose ==
    /\ server.sendNotifications # "panicked"
    /\ server.Close = "none"
    /\ server' = [server EXCEPT !.cancelled = TRUE, !.Close = "wg.Wait"]

\* Close: rs.wg.Wait() returns once the counter is zero
WgWait ==
    /\ server.sendNotifications # "panicked"
    /\ server.Close = "wg.Wait"
    /\ server.wg = 0
    /\ server' = [server EXCEPT !.Close = "transport.Close"]

\* Close: rs.transport.Close()
TransportClose ==
    /\ server.sendNotifications # "panicked"
    /\ server.Close = "transport.Close"
    /\ server' = [server EXCEPT !.Close = "node.Close"]

\* Close: return rs.node.Close(), which closes the node's chans
NodeClose ==
    /\ server.sendNotifications # "panicked"
    /\ server.Close = "node.Close"
    /\ server' = [server EXCEPT !.Close = "returned", !.closed = NodeChans]

ServerNext ==
    \/ \E chan \in NodeChans : NodeSends(chan) /\ UNCHANGED <<offRpc, net, ws>>
    \/ \E chan \in NodeChans : NodeCloses(chan) /\ UNCHANGED <<offRpc, net, ws>>
    \/ SelectDone /\ UNCHANGED <<offRpc, net, ws>>
    \/ \E chan \in NodeChans, failed \in BOOLEAN :
          SelectReceives(chan, failed) /\ UNCHANGED <<offRpc, net, ws>>
    \/ \E chan \in NodeChans : SelectClosed(chan) /\ UNCHANGED <<offRpc, net, ws>>
    \/ RpcServerClose /\ UNCHANGED <<offRpc, net, ws>>
    \/ WgWait /\ UNCHANGED <<offRpc, net, ws>>
    \/ TransportClose /\ UNCHANGED <<offRpc, net, ws>>
    \/ NodeClose /\ UNCHANGED <<offRpc, net, ws>>

ServerSpec == Init /\ [][ServerNext]_vars

-----------------------------------------------------------------------------
(* Properties of RpcServer.Close *)

\* C28: RpcServer.Close always returns: in every interleaving with the
\* goroutine of sendNotifications, a node chan closed before Close included,
\* Close is never left at its wait on the wait group with the counter above
\* zero and the goroutine gone, which alone calls Done.
C28_CloseReturns ==
    ~ /\ server.Close = "wg.Wait"
      /\ server.wg > 0
      /\ server.sendNotifications = "returned"

-----------------------------------------------------------------------------
(* ws.clientWebSocketTransport: Close and the goroutine of readMessages *)

MaxMessages == 3    \* the application receives at most this many notifications

\* the notifications the server sends
Messages == {"m1", "m2"}

\* websocket.CloseStatus(err) of the error a Read returns once the client has
\* closed the websocket: the status of the close frame, or another one when
\* the error wraps none
CloseStatuses == {"StatusNormalClosure", "other"}

\* readMessages: _, data, err := wsc.clientWebsocket.Read(ctx) returns a
\* message; the status of a nil error is not StatusNormalClosure
ReadMessage(data) ==
    /\ ws.readMessages = "Read"
    /\ ws.clientWebsocket = "open"
    /\ Len(ws.delivered) < MaxMessages
    /\ ws' = [ws EXCEPT !.data = data,
                        !.readMessages = "notificationChan <- data"]

\* readMessages: Read returns an error on the closed websocket; the loop
\* returns only when its status is StatusNormalClosure, and sends the nil
\* data otherwise
ReadError(status) ==
    /\ ws.readMessages = "Read"
    /\ ws.clientWebsocket = "closed"
    /\ Len(ws.delivered) < MaxMessages
    /\ ws' = IF status = "StatusNormalClosure"
               THEN [ws EXCEPT !.readMessages = "returned"]
               ELSE [ws EXCEPT !.data = "nil",
                               !.readMessages = "notificationChan <- data"]

\* wsc.notificationChan <- data on the open chan, which has no buffer: the
\* send ends when the application receives
NotificationSent ==
    /\ ws.readMessages = "notificationChan <- data"
    /\ ~ws.closedChan
    /\ ws' = [ws EXCEPT !.delivered = Append(@, ws.data),
                        !.readMessages = "Read"]

\* wsc.notificationChan <- data on the closed chan: the send panics
SendOnClosedChan ==
    /\ ws.readMessages = "notificationChan <- data"
    /\ ws.closedChan
    /\ ws' = [ws EXCEPT !.readMessages = "panicked"]

\* Close: wsc.clientWebsocket.Close(websocket.StatusNormalClosure, ...)
CloseWebsocket ==
    /\ ws.readMessages # "panicked"
    /\ ws.Close = "none"
    /\ ws' = [ws EXCEPT !.clientWebsocket = "closed",
                        !.Close = "close(notificationChan)"]

\* Close: close(wsc.notificationChan)
CloseNotificationChan ==
    /\ ws.readMessages # "panicked"
    /\ ws.Close = "close(notificationChan)"
    /\ ws' = [ws EXCEPT !.closedChan = TRUE, !.Close = "returned"]

WsNext ==
    \/ \E data \in Messages :
          ReadMessage(data) /\ UNCHANGED <<offRpc, net, server>>
    \/ \E status \in CloseStatuses :
          ReadError(status) /\ UNCHANGED <<offRpc, net, server>>
    \/ NotificationSent /\ UNCHANGED <<offRpc, net, server>>
    \/ SendOnClosedChan /\ UNCHANGED <<offRpc, net, server>>
    \/ CloseWebsocket /\ UNCHANGED <<offRpc, net, server>>
    \/ CloseNotificationChan /\ UNCHANGED <<offRpc, net, server>>

WsSpec == Init /\ [][WsNext]_vars

-----------------------------------------------------------------------------
(* Properties of clientWebSocketTransport.Close *)

\* C29: in every interleaving of Close with the loop of readMessages, no
\* value is sent on the notification chan after Close has closed it.
C29_NoSendAfterClose == ws.readMessages # "panicked"

-----------------------------------------------------------------------------
(* rpc.RpcServer: the amount of a CreateVoucher or Pay request *)

\* int64(a) of a uint64: the upper half of the range wraps to the negatives
Int64(a) == IF a >= WordModulus \div 2 THEN a - WordModulus ELSE a

\* serde.PaymentRequest: Amount is a uint64
PaymentRequests == [Channel : {"V1", NoAddress}, Amount : 0..(WordModulus - 1)]

\* serde.ValidatePaymentRequest: the channel is to be named
ValidatePaymentRequest(req) == [err |-> req.Channel = NoAddress]

\* the CreateVoucherRequestMethod case:
\* rs.node.CreateVoucher(req.Channel, big.NewInt(int64(req.Amount)))
CreateVoucherRequest(req) ==
    lastOp' = [NoOp EXCEPT !.op = "create_voucher", !.request = req,
                           !.id = req.Channel, !.added = TRUE,
                           !.value = Int64(req.Amount)]

\* the PayRequestMethod case: ValidatePaymentRequest, then
\* rs.node.Pay(req.Channel, big.NewInt(int64(req.Amount)))
PayRequest(req) ==
    lastOp' = IF ValidatePaymentRequest(req).err
                THEN [NoOp EXCEPT !.op = "pay", !.request = req,
                                  !.id = req.Channel, !.err = TRUE]
                ELSE [NoOp EXCEPT !.op = "pay", !.request = req,
                                  !.id = req.Channel, !.added = TRUE,
                                  !.value = Int64(req.Amount)]

offAmount ==
    <<ledgerVars, voucherVars, storeVars, mockVars, clientVars, proxyVars,
      rpcVars>>

AmountNext ==
    \/ \E req \in PaymentRequests :
          CreateVoucherRequest(req) /\ UNCHANGED offAmount
    \/ \E req \in PaymentRequests : PayRequest(req) /\ UNCHANGED offAmount

AmountSpec == Init /\ [][AmountNext]_vars

\* C34: for every amount in the unsigned 64-bit range a CreateVoucher or Pay
\* request carries, the amount handed to the node is the requested amount
\* and is never negative.
C34_AmountHandedIsRequested ==
    (lastOp.op \in {"create_voucher", "pay"} /\ lastOp.added) =>
        /\ lastOp.value = lastOp.request.Amount
        /\ lastOp.value >= 0

====
